---------------------------- MODULE Spec2Model ----------------------------
(***************************************************************************)
(* Sovereign-feed filtering of gander-social/indigo: the geographic        *)
(* classifier (bgs/geographic_filter.go), the sovereignty configuration    *)
(* (SovereignConfig.Validate) and the dual-endpoint relay surface.         *)
(*                                                                         *)
(* Strings are sequences of one-character strings, so that lower-casing,   *)
(* upper-casing, length and substring search are computed, not assumed.    *)
(***************************************************************************)
EXTENDS Integers, Sequences, FiniteSets, TLC

(***************************************************************************)
(* Bounds of the model.                                                    *)
(***************************************************************************)
\* goroutines that call into one classifier concurrently
NumProcs == 2
\* how many entries of SubjectPool are used as subject identifiers
NumSubjects == 3
\* how many calls are started on the classifier in one run
MaxCalls == 3
\* connections accepted by the relay in one run
NumConns == 2
\* events the shared source emits in one run
MaxEvents == 2
\* how many times the metrics singleton is reset in one run
MaxResets == 1
\* the largest sequence number of a wire event
MaxSeq == 7

(***************************************************************************)
(* Characters and the string functions of package strings that the code    *)
(* uses (ToLower, ToUpper, Contains, len).  The characters are ASCII, and   *)
(* one letter outside ASCII in its two cases, U+00C9 and U+00E9 (E with    *)
(* acute), written "E-ACUTE" and "e-acute": Go strings are UTF-8, so that  *)
(* letter is one character of two bytes.                                   *)
(***************************************************************************)
UpperLetters ==
  <<"A", "B", "C", "D", "E", "F", "G", "H", "I", "J", "K", "L", "M",
    "N", "O", "P", "Q", "R", "S", "T", "U", "V", "W", "X", "Y", "Z",
    "E-ACUTE">>

LowerLetters ==
  <<"a", "b", "c", "d", "e", "f", "g", "h", "i", "j", "k", "l", "m",
    "n", "o", "p", "q", "r", "s", "t", "u", "v", "w", "x", "y", "z",
    "e-acute">>

\* the number of bytes of the UTF-8 encoding of character c
Utf8Width(c) == IF c \in {"E-ACUTE", "e-acute"} THEN 2 ELSE 1

\* len(s) of a Go string: its number of bytes
RECURSIVE ByteLen(_)
ByteLen(s) == IF s = <<>> THEN 0 ELSE Utf8Width(Head(s)) + ByteLen(Tail(s))

LetterIndex(letters, c) ==
  IF \E i \in 1..Len(letters) : letters[i] = c
    THEN CHOOSE i \in 1..Len(letters) : letters[i] = c
    ELSE 0

ToLowerChar(c) ==
  IF LetterIndex(UpperLetters, c) # 0
    THEN LowerLetters[LetterIndex(UpperLetters, c)]
    ELSE c

ToUpperChar(c) ==
  IF LetterIndex(LowerLetters, c) # 0
    THEN UpperLetters[LetterIndex(LowerLetters, c)]
    ELSE c

\* strings.ToLower
ToLower(s) == [i \in 1..Len(s) |-> ToLowerChar(s[i])]

\* an upper-casing of the first character only
ToUpperFirstOnly(s) ==
  [i \in 1..Len(s) |-> IF i = 1 THEN ToUpperChar(s[i]) ELSE s[i]]

\* strings.ToUpper
ToUpper(s) == [i \in 1..Len(s) |-> ToUpperChar(s[i])]

\* strings.Index: the 0-based position of the first occurrence of substr
\* in s at or after position i (1-based scan), -1 when there is none
RECURSIVE IndexFrom(_, _, _)
IndexFrom(s, substr, i) ==
  IF i + Len(substr) - 1 > Len(s)
    THEN -1
    ELSE IF SubSeq(s, i, i + Len(substr) - 1) = substr
           THEN i - 1
           ELSE IndexFrom(s, substr, i + 1)

\* strings.Contains(s, substr) is Index(s, substr) >= 0
Contains(s, substr) == IndexFrom(s, substr, 1) >= 0

(***************************************************************************)
(* The classifier: keyword heuristic of isLikelyCanadian.                  *)
(***************************************************************************)
canadianKeywords ==
  << <<"c", "a", "n", "a", "d", "i", "a", "n">>,
     <<"c", "a", "n", "a", "d", "a">>,
     <<"t", "o", "r", "o", "n", "t", "o">>,
     <<"v", "a", "n", "c", "o", "u", "v", "e", "r">>,
     <<"m", "o", "n", "t", "r", "e", "a", "l">>,
     <<"c", "a", "l", "g", "a", "r", "y">>,
     <<"o", "t", "t", "a", "w", "a">>,
     <<"e", "d", "m", "o", "n", "t", "o", "n">>,
     <<"w", "i", "n", "n", "i", "p", "e", "g">>,
     <<"q", "u", "e", "b", "e", "c">>,
     <<"h", "a", "l", "i", "f", "a", "x">>,
     <<"v", "i", "c", "t", "o", "r", "i", "a">>,
     <<"s", "a", "s", "k", "a", "t", "o", "o", "n">>,
     <<"r", "e", "g", "i", "n", "a">>,
     <<"f", "r", "e", "d", "e", "r", "i", "c", "t", "o", "n">> >>

\* the loop of isLikelyCanadian over canadianKeywords, from keyword k on
RECURSIVE KeywordLoop(_, _)
KeywordLoop(didLower, k) ==
  IF k > Len(canadianKeywords)
    THEN FALSE
    ELSE IF Contains(didLower, canadianKeywords[k])
           THEN TRUE
           ELSE KeywordLoop(didLower, k + 1)

\* a heuristic that forgets to lower-case the identifier
HeuristicCaseSensitive(did) == KeywordLoop(did, 1)

\* a heuristic that includes every subject
HeuristicDefaultAllow(did) == TRUE

\* the value isLikelyCanadian computes on a miss of cache and knownDIDs
Heuristic(did) == KeywordLoop(ToLower(did), 1)

(***************************************************************************)
(* Subject identifiers and events used as inputs.                          *)
(***************************************************************************)
DidPlc == <<"d", "i", "d", ":", "p", "l", "c", ":">>

SubjectPool ==
  << DidPlc \o <<"t", "o", "r", "o", "n", "t", "o", "-", "u", "s", "e", "r", "-", "1", "2", "3">>,
     DidPlc \o <<"a", "m", "e", "r", "i", "c", "a", "n", "-", "u", "s", "e", "r">>,
     DidPlc \o <<"T", "O", "R", "O", "N", "T", "O", "-", "U", "s", "e", "r">>,
     DidPlc \o <<"u", "n", "k", "n", "o", "w", "n", "7", "8", "9">>,
     DidPlc \o <<"Q", "u", "e", "b", "e", "c">>,
     DidPlc \o <<"t", "o", "r", "o", "n", "t", "0">> >>

Min(a, b) == IF a <= b THEN a ELSE b

Subjects == { SubjectPool[i] : i \in 1..Min(NumSubjects, Len(SubjectPool)) }

Procs == 1..NumProcs

\* Heuristic on the subject identifiers of the model, evaluated once
HeuristicTable == [s \in Subjects |-> Heuristic(s)]

\* A payload pointer is <<>> (nil) or <<repo>>.
NoPayload == <<>>

\* events.XRPCStreamEvent: a nil pointer, or a struct of four optional payloads
NilEvent ==
  [isNil |-> TRUE, RepoCommit |-> NoPayload, RepoIdentity |-> NoPayload,
   RepoAccount |-> NoPayload, RepoSync |-> NoPayload]

EmptyEvent == [NilEvent EXCEPT !.isNil = FALSE]

CommitEvent(s) == [EmptyEvent EXCEPT !.RepoCommit = <<s>>]
IdentityEvent(s) == [EmptyEvent EXCEPT !.RepoIdentity = <<s>>]
AccountEvent(s) == [EmptyEvent EXCEPT !.RepoAccount = <<s>>]
SyncEvent(s) == [EmptyEvent EXCEPT !.RepoSync = <<s>>]

Events ==
  {NilEvent, EmptyEvent}
    \cup { CommitEvent(s) : s \in Subjects }
    \cup { IdentityEvent(s) : s \in Subjects }
    \cup { AccountEvent(s) : s \in Subjects }
    \cup { SyncEvent(s) : s \in Subjects }


(***************************************************************************)
(* State.                                                                  *)
(*                                                                         *)
(* Classifier (CanadianGeographicFilter, one instance shared by Procs):    *)
(*   cache, knownDIDs   the two maps, as functions on the keys present     *)
(*   readers, writer    holders of cacheMutex (sync.RWMutex)               *)
(*   pc, frame          each goroutine's position and locals               *)
(*   overridden         history: the DIDs for which AddCanadianDID has     *)
(*                      returned                                           *)
(*   calls              how many calls have been started                   *)
(***************************************************************************)
VARIABLES cache, knownDIDs, readers, writer, pc, frame, overridden, calls

classifierVars ==
  <<cache, knownDIDs, readers, writer, pc, frame, overridden, calls>>

(***************************************************************************)
(* Configuration (SovereignConfig):                                        *)
(*   sc            the configuration value Validate is called on           *)
(*   validateErr   the error Validate returned, NotValidated before        *)
(***************************************************************************)
VARIABLES sc, validateErr, endpoints

configVars == <<sc, validateErr, endpoints>>

(***************************************************************************)
(* Relay (BGS with its two subscription endpoints):                        *)
(*   hasClassifier   whether BGS.geographicFilter is set (not nil)         *)
(*   source          the events the shared source has emitted              *)
(*   conn            each connection: endpoint, state, credential, the     *)
(*                   source positions start (first to process) and next,   *)
(*                   the positions transmitted (sent), the results of      *)
(*                   Decide for the positions processed (decisions),       *)
(*                   whether the transport was upgraded, the HTTP status   *)
(*   metrics         the counters and the gauge of SovereigntyMetrics      *)
(***************************************************************************)
VARIABLES hasClassifier, source, conn, metrics

relayVars == <<hasClassifier, source, conn, metrics>>

(***************************************************************************)
(* One caller using the classifier, as the tests do:                       *)
(*   history   the calls made so far, in order, each with what it returned *)
(*   snaps     the maps GetCache has allocated and returned, by reference; *)
(*             the caller owns them and may write to them                  *)
(***************************************************************************)
VARIABLES history, snaps

sequentialVars == <<history, snaps>>

(***************************************************************************)
(* The metrics singleton of package bgs (sovereignty_metrics.go):          *)
(*   sovereigntyMetricsInstance   the package variable: 0 is nil, any      *)
(*                                other number one allocated struct        *)
(*   sovereigntyMetricsOnce       the sync.Once: done, and the holder of   *)
(*                                its mutex m (0 when unlocked)            *)
(*   registry       the metric names registered with the default           *)
(*                  Prometheus registerer, which promauto uses             *)
(*   registrations  how many times the instrument set was registered       *)
(*   bodyRuns       how many times the function passed to Do was entered   *)
(*   mpc, slow      each caller's position in NewSovereigntyMetrics, and   *)
(*                  whether its call went through Once.doSlow              *)
(*   newCalls       how many constructor calls were started                *)
(*   results        what the constructor calls returned, in order          *)
(*   resets, discarded   how many resets ran, and the instances they set   *)
(*                  aside                                                  *)
(*   crashed        the process ended on a panic nothing recovers          *)
(***************************************************************************)
VARIABLES sovereigntyMetricsInstance, sovereigntyMetricsOnce, registry,
          registrations, bodyRuns, mpc, slow, newCalls, results, resets,
          discarded, crashed

singletonVars ==
  <<sovereigntyMetricsInstance, sovereigntyMetricsOnce, registry,
    registrations, bodyRuns, mpc, slow, newCalls, results, resets,
    discarded, crashed>>

(***************************************************************************)
(* Constructors and conversions called on their own:                       *)
(*   arg      the call made last: the function and its arguments           *)
(*   result   the value that call returned                                 *)
(***************************************************************************)
VARIABLES arg, result

valueVars == <<arg, result>>

vars ==
  <<classifierVars, configVars, relayVars, sequentialVars, singletonVars,
    valueVars>>

\* the classifier's variables other than the cache
classifierRest == <<knownDIDs, readers, writer, pc, frame, overridden, calls>>

\* m[k] = v, as a Go map assignment
MapPut(m, k, v) == [x \in DOMAIN m \cup {k} |-> IF x = k THEN v ELSE m[x]]

EmptyMap == [x \in {} |-> FALSE]

\* locals of a goroutine that is not inside a call
\* op, did, val, ret are the locals; path, ev and after are history:
\*   path   where the result came from (nosubject, cache, known, heuristic)
\*   ev     <<event>> for a call whose event carries no payload, else <<>>
\*   after  the call started after AddCanadianDID(did) had returned
IdleFrame ==
  [op |-> "none", ev |-> <<>>, did |-> <<>>, val |-> FALSE,
   path |-> "none", ret |-> FALSE, after |-> FALSE, locks |-> 0,
   snap |-> EmptyMap]

\* a nil event, or one with none of the four payloads
NoSubject(event) ==
  \/ event.isNil
  \/ /\ event.RepoCommit = NoPayload
     /\ event.RepoIdentity = NoPayload
     /\ event.RepoAccount = NoPayload
     /\ event.RepoSync = NoPayload

\* a switch whose default case lets the event through
EntryDefaultInclude(event) ==
  IF event.isNil THEN [kind |-> "return", value |-> FALSE, repo |-> <<>>]
  ELSE IF event.RepoCommit # NoPayload
    THEN [kind |-> "call", value |-> FALSE, repo |-> event.RepoCommit[1]]
  ELSE IF event.RepoIdentity # NoPayload
    THEN [kind |-> "call", value |-> FALSE, repo |-> event.RepoIdentity[1]]
  ELSE IF event.RepoAccount # NoPayload
    THEN [kind |-> "call", value |-> FALSE, repo |-> event.RepoAccount[1]]
  ELSE IF event.RepoSync # NoPayload
    THEN [kind |-> "call", value |-> FALSE, repo |-> event.RepoSync[1]]
  ELSE [kind |-> "return", value |-> TRUE, repo |-> <<>>]

\* a subject extraction without the RepoSync case
ShouldIncludeEntryNoSync(event) ==
  IF event.isNil THEN [kind |-> "return", value |-> FALSE, repo |-> <<>>]
  ELSE IF event.RepoCommit # NoPayload
    THEN [kind |-> "call", value |-> FALSE, repo |-> event.RepoCommit[1]]
  ELSE IF event.RepoIdentity # NoPayload
    THEN [kind |-> "call", value |-> FALSE, repo |-> event.RepoIdentity[1]]
  ELSE IF event.RepoAccount # NoPayload
    THEN [kind |-> "call", value |-> FALSE, repo |-> event.RepoAccount[1]]
  ELSE [kind |-> "return", value |-> FALSE, repo |-> <<>>]

\* ShouldIncludeInSovereignFeed up to its last line: either it returns
\* value at once, or it goes on to isLikelyCanadian(repo)
ShouldIncludeEntry(event) ==
  IF event.isNil THEN [kind |-> "return", value |-> FALSE, repo |-> <<>>]
  ELSE IF event.RepoCommit # NoPayload
    THEN [kind |-> "call", value |-> FALSE, repo |-> event.RepoCommit[1]]
  ELSE IF event.RepoIdentity # NoPayload
    THEN [kind |-> "call", value |-> FALSE, repo |-> event.RepoIdentity[1]]
  ELSE IF event.RepoAccount # NoPayload
    THEN [kind |-> "call", value |-> FALSE, repo |-> event.RepoAccount[1]]
  ELSE IF event.RepoSync # NoPayload
    THEN [kind |-> "call", value |-> FALSE, repo |-> event.RepoSync[1]]
  ELSE [kind |-> "return", value |-> FALSE, repo |-> <<>>]

(***************************************************************************)
(* sync.RWMutex: RLock is granted while no writer holds the mutex, Lock    *)
(* while nobody holds it.                                                  *)
(***************************************************************************)
CanRLock == writer = {}
CanLock == writer = {} /\ readers = {}

InitClassifier ==
  /\ cache = EmptyMap
  /\ knownDIDs = EmptyMap
  /\ readers = {}
  /\ writer = {}
  /\ pc = [p \in Procs |-> "idle"]
  /\ frame = [p \in Procs |-> IdleFrame]
  /\ overridden = {}
  /\ calls = 0

(***************************************************************************)
(* ShouldIncludeInSovereignFeed(event), lines 44-65, by goroutine p.       *)
(***************************************************************************)
\* a call that, for an event without a subject, locks the mutex and caches
\* false for the empty DID
CallShouldIncludeCachesEmpty(p, event) ==
  /\ pc[p] = "idle"
  /\ calls < MaxCalls
  /\ calls' = calls + 1
  /\ LET e == ShouldIncludeEntry(event)
         f == [IdleFrame EXCEPT !.op = "ShouldInclude",
                                !.ev = IF NoSubject(event) THEN <<event>> ELSE <<>>]
     IN IF e.kind = "return"
          THEN /\ CanLock
               /\ frame' = [frame EXCEPT ![p] = [f EXCEPT !.val = e.value,
                                                          !.path = "nosubject"]]
               /\ writer' = {p}
               /\ pc' = [pc EXCEPT ![p] = "L134"]
          ELSE /\ frame' = [frame EXCEPT ![p] = [f EXCEPT !.did = e.repo,
                                                          !.after = e.repo \in overridden]]
               /\ pc' = [pc EXCEPT ![p] = "L95"]
               /\ UNCHANGED writer
  /\ UNCHANGED <<cache, knownDIDs, readers, overridden>>
  /\ UNCHANGED <<configVars, relayVars, sequentialVars, singletonVars, valueVars>>

CallShouldInclude(p, event) ==
  /\ pc[p] = "idle"
  /\ calls < MaxCalls
  /\ calls' = calls + 1
  /\ LET e == ShouldIncludeEntry(event)
         f == [IdleFrame EXCEPT !.op = "ShouldInclude",
                                !.ev = IF NoSubject(event) THEN <<event>> ELSE <<>>]
     IN IF e.kind = "return"
          THEN /\ frame' = [frame EXCEPT ![p] = [f EXCEPT !.ret = e.value,
                                                          !.path = "nosubject"]]
               /\ pc' = [pc EXCEPT ![p] = "ret"]
          ELSE /\ frame' = [frame EXCEPT ![p] = [f EXCEPT !.did = e.repo,
                                                          !.after = e.repo \in overridden]]
               /\ pc' = [pc EXCEPT ![p] = "L95"]
  /\ UNCHANGED <<cache, knownDIDs, readers, writer, overridden>>
  /\ UNCHANGED <<configVars, relayVars, sequentialVars, singletonVars, valueVars>>

\* isLikelyCanadian line 95: f.cacheMutex.RLock()
RLockCache(p) ==
  /\ pc[p] = "L95"
  /\ CanRLock
  /\ readers' = readers \cup {p}
  /\ pc' = [pc EXCEPT ![p] = "L96"]
  /\ UNCHANGED <<cache, knownDIDs, writer, frame, overridden, calls>>
  /\ UNCHANGED <<configVars, relayVars, sequentialVars, singletonVars, valueVars>>

\* lines 96-100: the cache lookup and RUnlock
CheckCache(p) ==
  /\ pc[p] = "L96"
  /\ readers' = readers \ {p}
  /\ IF frame[p].did \in DOMAIN cache
       THEN /\ frame' = [frame EXCEPT ![p].ret = cache[frame[p].did],
                                      ![p].path = "cache"]
            /\ pc' = [pc EXCEPT ![p] = "ret"]
       ELSE /\ pc' = [pc EXCEPT ![p] = "L103"]
            /\ UNCHANGED frame
  /\ UNCHANGED <<cache, knownDIDs, writer, overridden, calls>>
  /\ UNCHANGED <<configVars, relayVars, sequentialVars, singletonVars, valueVars>>

\* line 103: f.cacheMutex.RLock()
RLockKnown(p) ==
  /\ pc[p] = "L103"
  /\ CanRLock
  /\ readers' = readers \cup {p}
  /\ pc' = [pc EXCEPT ![p] = "L104"]
  /\ UNCHANGED <<cache, knownDIDs, writer, frame, overridden, calls>>
  /\ UNCHANGED <<configVars, relayVars, sequentialVars, singletonVars, valueVars>>

\* a knownDIDs lookup that goes on without RUnlock
CheckKnownKeepsRLock(p) ==
  /\ pc[p] = "L104"
  /\ IF frame[p].did \in DOMAIN knownDIDs
       THEN /\ frame' = [frame EXCEPT ![p].val = knownDIDs[frame[p].did],
                                      ![p].path = "known"]
            /\ pc' = [pc EXCEPT ![p] = "L132"]
       ELSE /\ pc' = [pc EXCEPT ![p] = "L118"]
            /\ UNCHANGED frame
  /\ UNCHANGED <<cache, knownDIDs, readers, writer, overridden, calls>>
  /\ UNCHANGED <<configVars, relayVars, sequentialVars, singletonVars, valueVars>>

\* lines 104-109: the knownDIDs lookup and RUnlock; on a hit on to
\* setCached(did, known), on a miss on to the keyword heuristic
CheckKnown(p) ==
  /\ pc[p] = "L104"
  /\ readers' = readers \ {p}
  /\ IF frame[p].did \in DOMAIN knownDIDs
       THEN /\ frame' = [frame EXCEPT ![p].val = knownDIDs[frame[p].did],
                                      ![p].path = "known"]
            /\ pc' = [pc EXCEPT ![p] = "L132"]
       ELSE /\ pc' = [pc EXCEPT ![p] = "L118"]
            /\ UNCHANGED frame
  /\ UNCHANGED <<cache, knownDIDs, writer, overridden, calls>>
  /\ UNCHANGED <<configVars, relayVars, sequentialVars, singletonVars, valueVars>>

\* lines 112-126: the keyword heuristic on the lower-cased did; its result
\* is the value passed to setCached
KeywordHeuristic(p) ==
  /\ pc[p] = "L118"
  /\ frame' = [frame EXCEPT ![p].val = HeuristicTable[frame[p].did],
                            ![p].path = "heuristic"]
  /\ pc' = [pc EXCEPT ![p] = "L132"]
  /\ UNCHANGED <<cache, knownDIDs, readers, writer, overridden, calls>>
  /\ UNCHANGED <<configVars, relayVars, sequentialVars, singletonVars, valueVars>>

\* setCached line 132: f.cacheMutex.Lock()
LockSetCached(p) ==
  /\ pc[p] = "L132"
  /\ CanLock
  /\ writer' = {p}
  /\ frame' = [frame EXCEPT ![p].locks = @ + 1]
  /\ pc' = [pc EXCEPT ![p] = "L134"]
  /\ UNCHANGED <<cache, knownDIDs, readers, overridden, calls>>
  /\ UNCHANGED <<configVars, relayVars, sequentialVars, singletonVars, valueVars>>

\* a setCached that stores the opposite of the value it is given
WriteSetCachedNegated(p) ==
  /\ pc[p] = "L134"
  /\ cache' = MapPut(cache, frame[p].did, ~frame[p].val)
  /\ writer' = {}
  /\ frame' = [frame EXCEPT ![p].ret = frame[p].val]
  /\ pc' = [pc EXCEPT ![p] = "ret"]
  /\ UNCHANGED <<knownDIDs, readers, overridden, calls>>
  /\ UNCHANGED <<configVars, relayVars, sequentialVars, singletonVars, valueVars>>

\* setCached line 134 and the deferred Unlock; isLikelyCanadian returns val
WriteSetCached(p) ==
  /\ pc[p] = "L134"
  /\ cache' = MapPut(cache, frame[p].did, frame[p].val)
  /\ writer' = {}
  /\ frame' = [frame EXCEPT ![p].ret = frame[p].val]
  /\ pc' = [pc EXCEPT ![p] = "ret"]
  /\ UNCHANGED <<knownDIDs, readers, overridden, calls>>
  /\ UNCHANGED <<configVars, relayVars, sequentialVars, singletonVars, valueVars>>

(***************************************************************************)
(* AddCanadianDID(did), lines 74-79, by goroutine p.                       *)
(***************************************************************************)
CallAddCanadianDID(p, did) ==
  /\ pc[p] = "idle"
  /\ calls < MaxCalls
  /\ calls' = calls + 1
  /\ frame' = [frame EXCEPT ![p] = [IdleFrame EXCEPT !.op = "AddCanadianDID",
                                                     !.did = did]]
  /\ pc' = [pc EXCEPT ![p] = "L75"]
  /\ UNCHANGED <<cache, knownDIDs, readers, writer, overridden>>
  /\ UNCHANGED <<configVars, relayVars, sequentialVars, singletonVars, valueVars>>

\* line 75: f.cacheMutex.Lock()
LockAdd(p) ==
  /\ pc[p] = "L75"
  /\ CanLock
  /\ writer' = {p}
  /\ pc' = [pc EXCEPT ![p] = "L77"]
  /\ UNCHANGED <<cache, knownDIDs, readers, frame, overridden, calls>>
  /\ UNCHANGED <<configVars, relayVars, sequentialVars, singletonVars, valueVars>>

\* an AddCanadianDID that returns with the mutex still locked
WriteAddNoUnlock(p) ==
  /\ pc[p] = "L77"
  /\ knownDIDs' = MapPut(knownDIDs, frame[p].did, TRUE)
  /\ cache' = MapPut(cache, frame[p].did, TRUE)
  /\ overridden' = overridden \cup {frame[p].did}
  /\ pc' = [pc EXCEPT ![p] = "ret"]
  /\ UNCHANGED <<readers, writer, frame, calls>>
  /\ UNCHANGED <<configVars, relayVars, sequentialVars, singletonVars, valueVars>>

\* lines 77-78, the deferred Unlock and the return
WriteAdd(p) ==
  /\ pc[p] = "L77"
  /\ knownDIDs' = MapPut(knownDIDs, frame[p].did, TRUE)
  /\ cache' = MapPut(cache, frame[p].did, TRUE)
  /\ writer' = {}
  /\ overridden' = overridden \cup {frame[p].did}
  /\ pc' = [pc EXCEPT ![p] = "ret"]
  /\ UNCHANGED <<readers, frame, calls>>
  /\ UNCHANGED <<configVars, relayVars, sequentialVars, singletonVars, valueVars>>

(***************************************************************************)
(* GetCache(), lines 82-91, by goroutine p.                                *)
(***************************************************************************)
CallGetCache(p) ==
  /\ pc[p] = "idle"
  /\ calls < MaxCalls
  /\ calls' = calls + 1
  /\ frame' = [frame EXCEPT ![p] = [IdleFrame EXCEPT !.op = "GetCache"]]
  /\ pc' = [pc EXCEPT ![p] = "L83"]
  /\ UNCHANGED <<cache, knownDIDs, readers, writer, overridden>>
  /\ UNCHANGED <<configVars, relayVars, sequentialVars, singletonVars, valueVars>>

\* line 83: f.cacheMutex.RLock()
RLockGetCache(p) ==
  /\ pc[p] = "L83"
  /\ CanRLock
  /\ readers' = readers \cup {p}
  /\ pc' = [pc EXCEPT ![p] = "L86"]
  /\ UNCHANGED <<cache, knownDIDs, writer, frame, overridden, calls>>
  /\ UNCHANGED <<configVars, relayVars, sequentialVars, singletonVars, valueVars>>

\* lines 86-90 and the deferred RUnlock: the entries are copied into a new
\* map while the read lock keeps writers out
CopyGetCache(p) ==
  /\ pc[p] = "L86"
  /\ frame' = [frame EXCEPT ![p].snap = cache]
  /\ readers' = readers \ {p}
  /\ pc' = [pc EXCEPT ![p] = "ret"]
  /\ UNCHANGED <<cache, knownDIDs, writer, overridden, calls>>
  /\ UNCHANGED <<configVars, relayVars, sequentialVars, singletonVars, valueVars>>

\* the caller takes the result; the goroutine is free for its next call
Return(p) ==
  /\ pc[p] = "ret"
  /\ pc' = [pc EXCEPT ![p] = "idle"]
  /\ frame' = [frame EXCEPT ![p] = IdleFrame]
  /\ UNCHANGED <<cache, knownDIDs, readers, writer, overridden, calls>>
  /\ UNCHANGED <<configVars, relayVars, sequentialVars, singletonVars, valueVars>>

NextClassifier ==
  \E p \in Procs :
    \/ \E event \in Events : CallShouldInclude(p, event)
    \/ RLockCache(p)
    \/ CheckCache(p)
    \/ RLockKnown(p)
    \/ CheckKnown(p)
    \/ KeywordHeuristic(p)
    \/ LockSetCached(p)
    \/ WriteSetCached(p)
    \/ \E did \in Subjects : CallAddCanadianDID(p, did)
    \/ LockAdd(p)
    \/ WriteAdd(p)
    \/ CallGetCache(p)
    \/ RLockGetCache(p)
    \/ CopyGetCache(p)
    \/ Return(p)

(***************************************************************************)
(* SovereignConfig and Validate.                                           *)
(***************************************************************************)
\* country codes given to Validate
CountryCodes ==
  { <<>>, <<"C">>, <<"C", "A">>,
    <<"c", "a">>, <<"C", "a">>, <<"c", "A">>,
    <<"U", "S">>, <<"u", "s">>, <<"G", "B">>,
    <<"F", "R">>, <<"D", "E">>, <<"A", "U">>,
    <<"N", "Z">>, <<"J", "P">>, <<"K", "R">>,
    <<"I", "N">>, <<"B", "R">>, <<"M", "X">>,
    <<"m", "x">>, <<"X", "X">>, <<"x", "x">>,
    <<"U", "K">>, <<"C", "4">>, <<"C", "A", "N">>,
    <<"U", "S", "A">>, <<"C", "A", "N", "A", "D", "A">>,
    <<"e-acute">>, <<"E-ACUTE", "E-ACUTE">> }

DataRetentionValues == {-1, 0, 30, 90}

PrivacyModes == {"", "strict", "balanced", "minimal", "standard"}

\* the SovereignConfig values of the model
SovereignConfigs ==
  [Enabled : BOOLEAN, CountryCode : CountryCodes,
   DataRetentionDays : DataRetentionValues, PrivacyMode : PrivacyModes]

\* the errors of Validate; NoError is nil
NoError == "nil"
ErrRequired == "country code is required when sovereignty is enabled"
ErrLength == "country code must be 2 characters (ISO 3166-1 alpha-2)"
ErrInvalid == "invalid country code"
NotValidated == "not validated"

validCodes ==
  << <<"C", "A">>, <<"U", "S">>, <<"G", "B">>, <<"F", "R">>,
     <<"D", "E">>, <<"A", "U">>, <<"N", "Z">>, <<"J", "P">>,
     <<"K", "R">>, <<"I", "N">>, <<"B", "R">>, <<"M", "X">> >>

\* the loop of Validate over validCodes, from index i on: the value of valid
RECURSIVE ValidLoop(_, _)
ValidLoop(upperCode, i) ==
  IF i > Len(validCodes)
    THEN FALSE
    ELSE IF upperCode = validCodes[i]
           THEN TRUE
           ELSE ValidLoop(upperCode, i + 1)

\* a Validate that checks the country code of a disabled configuration too
ValidateNoBypass(c) ==
  IF c.CountryCode = <<>> THEN ErrRequired
  ELSE IF ByteLen(c.CountryCode) # 2 THEN ErrLength
  ELSE IF ~ValidLoop(ToUpper(c.CountryCode), 1) THEN ErrInvalid
  ELSE NoError

\* a Validate that also rejects a privacy mode it does not know
ValidateChecksPrivacyMode(c) ==
  IF ~c.Enabled THEN NoError
  ELSE IF c.CountryCode = <<>> THEN ErrRequired
  ELSE IF ByteLen(c.CountryCode) # 2 THEN ErrLength
  ELSE IF ~ValidLoop(ToUpper(c.CountryCode), 1) THEN ErrInvalid
  ELSE IF c.PrivacyMode \notin {"strict", "balanced", "minimal"} THEN ErrInvalid
  ELSE NoError

\* a Validate that compares the country code as written
ValidateCaseSensitive(c) ==
  IF ~c.Enabled THEN NoError
  ELSE IF c.CountryCode = <<>> THEN ErrRequired
  ELSE IF ByteLen(c.CountryCode) # 2 THEN ErrLength
  ELSE IF ~ValidLoop(c.CountryCode, 1) THEN ErrInvalid
  ELSE NoError

\* (sc *SovereignConfig) Validate() error; len() counts bytes
Validate(c) ==
  IF ~c.Enabled THEN NoError
  ELSE IF c.CountryCode = <<>> THEN ErrRequired
  ELSE IF ByteLen(c.CountryCode) # 2 THEN ErrLength
  ELSE IF ~ValidLoop(ToUpper(c.CountryCode), 1) THEN ErrInvalid
  ELSE NoError

\* the ServiceConfig of cmd/relay with the sovereignty fields of c
ServiceConfig(c) ==
  [SovereigntyEnabled |-> c.Enabled,
   SovereignCountryCode |-> c.CountryCode,
   SovereigntyMode |-> c.PrivacyMode]

\* "/xrpc/com.atproto.sync.subscribeRepos"
StandardEndpoint ==
  <<"/", "x", "r", "p", "c", "/", "c", "o", "m", ".", "a", "t", "p", "r", "o", "t", "o",
    ".", "s", "y", "n", "c", ".", "s", "u", "b", "s", "c", "r", "i", "b", "e",
    "R", "e", "p", "o", "s">>

\* "/xrpc/ca.atproto.sync.subscribeRepos"
CanadianEndpoint ==
  <<"/", "x", "r", "p", "c", "/", "c", "a", ".", "a", "t", "p", "r", "o", "t", "o",
    ".", "s", "y", "n", "c", ".", "s", "u", "b", "s", "c", "r", "i", "b", "e",
    "R", "e", "p", "o", "s">>

\* an endpoint list with the sovereign path in place of the standard one
GetConfiguredEndpointsNoStandard(config) ==
  IF config.SovereigntyEnabled /\ config.SovereignCountryCode = <<"C", "A">>
    THEN <<CanadianEndpoint>>
    ELSE <<StandardEndpoint>>

\* GetConfiguredEndpoints(config *ServiceConfig) []string
GetConfiguredEndpoints(config) ==
  IF config.SovereigntyEnabled /\ config.SovereignCountryCode = <<"C", "A">>
    THEN Append(<<StandardEndpoint>>, CanadianEndpoint)
    ELSE <<StandardEndpoint>>

\* no endpoint list has been computed
NoEndpoints == <<>>

\* the state of the configuration while the classifier is exercised
IdleConfig ==
  /\ sc = [Enabled |-> FALSE, CountryCode |-> <<>>,
           DataRetentionDays |-> 0, PrivacyMode |-> ""]
  /\ validateErr = NotValidated
  /\ endpoints = NoEndpoints

\* a configuration as loaded at process start, not yet validated
InitConfig ==
  /\ sc \in SovereignConfigs
  /\ validateErr = NotValidated
  /\ endpoints = NoEndpoints

\* sc.Validate() is called; it reads sc and assigns none of its fields
CallValidate ==
  /\ validateErr = NotValidated
  /\ validateErr' = Validate(sc)
  /\ UNCHANGED <<sc, endpoints>>
  /\ UNCHANGED <<classifierVars, relayVars, sequentialVars, singletonVars, valueVars>>

\* GetConfiguredEndpoints is called on the service configuration; it reads
\* the configuration and assigns none of its fields
CallGetConfiguredEndpoints ==
  /\ endpoints = NoEndpoints
  /\ endpoints' = GetConfiguredEndpoints(ServiceConfig(sc))
  /\ UNCHANGED <<sc, validateErr>>
  /\ UNCHANGED <<classifierVars, relayVars, sequentialVars, singletonVars, valueVars>>

NextConfig ==
  \/ CallValidate
  \/ CallGetConfiguredEndpoints

(***************************************************************************)
(* The classifier called by one goroutine at a time: the result of         *)
(* ShouldIncludeInSovereignFeed(event) in the current state, and the cache *)
(* it leaves.                                                              *)
(***************************************************************************)
IsLikelyCanadianResult(did) ==
  IF did \in DOMAIN cache THEN cache[did]
  ELSE IF did \in DOMAIN knownDIDs THEN knownDIDs[did]
  ELSE HeuristicTable[did]

ShouldIncludeResult(event) ==
  LET e == ShouldIncludeEntry(event)
  IN IF e.kind = "return" THEN e.value ELSE IsLikelyCanadianResult(e.repo)

\* a classifier that returns its computed result without caching it
CacheAfterNoCommit(event) == cache

\* a classifier that commits its result and drops every other entry, as an
\* expiry of the validity window would
CacheAfterExpiry(event) ==
  LET e == ShouldIncludeEntry(event)
  IN IF e.kind = "return" \/ e.repo \in DOMAIN cache
       THEN cache
       ELSE MapPut(EmptyMap, e.repo, IsLikelyCanadianResult(e.repo))

CacheAfterShouldInclude(event) ==
  LET e == ShouldIncludeEntry(event)
  IN IF e.kind = "return" \/ e.repo \in DOMAIN cache
       THEN cache
       ELSE MapPut(cache, e.repo, IsLikelyCanadianResult(e.repo))

\* the place isLikelyCanadian(did) returns from, for the event's subject
ShouldIncludePath(event) ==
  LET e == ShouldIncludeEntry(event)
  IN IF e.kind = "return" THEN "nosubject"
     ELSE IF e.repo \in DOMAIN cache THEN "cache"
     ELSE IF e.repo \in DOMAIN knownDIDs THEN "known"
     ELSE "heuristic"

(***************************************************************************)
(* The calls of one caller, each running alone from call to return.        *)
(***************************************************************************)
\* the events the caller passes
SequentialEvents ==
  {NilEvent, EmptyEvent} \cup { CommitEvent(s) : s \in Subjects }
    \cup {IdentityEvent(SubjectPool[1]), AccountEvent(SubjectPool[2]),
          SyncEvent(SubjectPool[1])}

\* one entry of history; ref is the reference GetCache returned (0 is the
\* live cache itself) and snap the contents of that map on return
CallRecord(op, did, ret, path, ref, snap) ==
  [op |-> op, did |-> did, ret |-> ret, path |-> path, ref |-> ref,
   snap |-> snap, kind |-> "none"]

\* the payload of the event the switch at lines 51-62 selects
EventKind(event) ==
  IF event.isNil THEN "nil"
  ELSE IF event.RepoCommit # NoPayload THEN "commit"
  ELSE IF event.RepoIdentity # NoPayload THEN "identity"
  ELSE IF event.RepoAccount # NoPayload THEN "account"
  ELSE IF event.RepoSync # NoPayload THEN "sync"
  ELSE "empty"

IdleSequential ==
  /\ history = <<>>
  /\ snaps = <<>>

\* the classifier's variables that a call running alone leaves as they are
sequentialRest == <<readers, writer, pc, frame, calls>>

\* f.ShouldIncludeInSovereignFeed(event), from call to return
ShouldIncludeInSovereignFeed(event) ==
  LET e == ShouldIncludeEntry(event)
  IN /\ Len(history) < MaxCalls
     /\ history' = Append(history,
                      [CallRecord("ShouldInclude", e.repo,
                                  ShouldIncludeResult(event),
                                  ShouldIncludePath(event), 0, EmptyMap)
                         EXCEPT !.kind = EventKind(event)])
     /\ cache' = CacheAfterShouldInclude(event)
     /\ UNCHANGED <<knownDIDs, overridden, snaps, sequentialRest>>
     /\ UNCHANGED <<configVars, relayVars, singletonVars, valueVars>>

\* f.Initialize(ctx), from call to return: it does nothing and returns nil
Initialize ==
  /\ Len(history) < MaxCalls
  /\ history' = Append(history,
                   CallRecord("Initialize", <<>>, FALSE, "none", 0, EmptyMap))
  /\ UNCHANGED <<cache, knownDIDs, overridden, snaps, sequentialRest>>
  /\ UNCHANGED <<configVars, relayVars, singletonVars, valueVars>>

\* f.AddCanadianDID(did), from call to return
AddCanadianDID(did) ==
  /\ Len(history) < MaxCalls
  /\ knownDIDs' = MapPut(knownDIDs, did, TRUE)
  /\ cache' = MapPut(cache, did, TRUE)
  /\ overridden' = overridden \cup {did}
  /\ history' = Append(history,
                   CallRecord("AddCanadianDID", did, FALSE, "none", 0, EmptyMap))
  /\ UNCHANGED <<snaps, sequentialRest>>
  /\ UNCHANGED <<configVars, relayVars, singletonVars, valueVars>>

\* The override operation as a caller with a subject and a classification
\* to assert can invoke it: AddCanadianDID(did string) is the only override
\* method and has no parameter for the classification, so `included` stays
\* with the caller and lines 77-78 store true.
AddKnownSubject(id, included) ==
  /\ Len(history) < MaxCalls
  /\ knownDIDs' = MapPut(knownDIDs, id, TRUE)
  /\ cache' = MapPut(cache, id, TRUE)
  /\ overridden' = overridden \cup {id}
  /\ history' = Append(history,
                   CallRecord("AddKnownSubject", id, included, "none", 0, EmptyMap))
  /\ UNCHANGED <<snaps, sequentialRest>>
  /\ UNCHANGED <<configVars, relayVars, singletonVars, valueVars>>

\* a GetCache that returns the classifier's own map
GetCacheLive ==
  /\ Len(history) < MaxCalls
  /\ history' = Append(history,
                   CallRecord("GetCache", NoPayload, FALSE, "none", 0, cache))
  /\ UNCHANGED <<cache, knownDIDs, overridden, snaps, sequentialRest>>
  /\ UNCHANGED <<configVars, relayVars, singletonVars, valueVars>>

\* f.GetCache(), from call to return: a new map is made, the entries of the
\* cache are copied into it, and the new map is returned
GetCache ==
  /\ Len(history) < MaxCalls
  /\ snaps' = Append(snaps, cache)
  /\ history' = Append(history,
                   CallRecord("GetCache", NoPayload, FALSE, "none",
                              Len(snaps) + 1, cache))
  /\ UNCHANGED <<cache, knownDIDs, overridden, sequentialRest>>
  /\ UNCHANGED <<configVars, relayVars, singletonVars, valueVars>>

\* the references GetCache has returned to the caller
ReturnedRefs ==
  { history[i].ref : i \in { j \in 1..Len(history) : history[j].op = "GetCache" } }

\* the map behind a reference
Deref(ref) == IF ref = 0 THEN cache ELSE snaps[ref]

\* m without the key k, as Go's delete(m, k)
MapDelete(m, k) == [x \in DOMAIN m \ {k} |-> m[x]]

\* the caller assigns m[did] = value in a map m that GetCache returned
WriteSnapshot(ref, did, value) ==
  /\ Len(history) < MaxCalls
  /\ ref \in ReturnedRefs
  /\ IF ref = 0
       THEN cache' = MapPut(cache, did, value) /\ snaps' = snaps
       ELSE snaps' = [snaps EXCEPT ![ref] = MapPut(@, did, value)]
            /\ cache' = cache
  /\ history' = Append(history,
                   CallRecord("WriteSnapshot", did, value, "none", ref, EmptyMap))
  /\ UNCHANGED <<knownDIDs, overridden, sequentialRest>>
  /\ UNCHANGED <<configVars, relayVars, singletonVars, valueVars>>

\* the caller deletes the key did from a map m that GetCache returned
DeleteSnapshot(ref, did) ==
  /\ Len(history) < MaxCalls
  /\ ref \in ReturnedRefs
  /\ IF ref = 0
       THEN cache' = MapDelete(cache, did) /\ snaps' = snaps
       ELSE snaps' = [snaps EXCEPT ![ref] = MapDelete(@, did)]
            /\ cache' = cache
  /\ history' = Append(history,
                   CallRecord("DeleteSnapshot", did, FALSE, "none", ref, EmptyMap))
  /\ UNCHANGED <<knownDIDs, overridden, sequentialRest>>
  /\ UNCHANGED <<configVars, relayVars, singletonVars, valueVars>>

NextSequential ==
  \/ \E event \in SequentialEvents : ShouldIncludeInSovereignFeed(event)
  \/ Initialize
  \/ \E did \in Subjects : AddCanadianDID(did)
  \/ \E id \in Subjects, included \in BOOLEAN : AddKnownSubject(id, included)
  \/ GetCache
  \/ \E ref \in 0..MaxCalls, did \in Subjects :
       \/ \E value \in BOOLEAN : WriteSnapshot(ref, did, value)
       \/ DeleteSnapshot(ref, did)

(***************************************************************************)
(* SovereignEventFilter (BGS.sovereignEventFilter) and the metrics it      *)
(* records.                                                                *)
(***************************************************************************)
\* a filter that lets every event through when no classifier is set
DecideFailOpen(event) ==
  IF ~hasClassifier THEN TRUE ELSE ShouldIncludeResult(event)

\* a filter that passes only commit events on to the classifier
DecideCommitsOnly(event) ==
  IF ~hasClassifier \/ event.RepoCommit = NoPayload
    THEN FALSE
    ELSE ShouldIncludeResult(event)

\* the result of Decide(event)
Decide(event) ==
  IF ~hasClassifier THEN FALSE ELSE ShouldIncludeResult(event)

ZeroMetrics ==
  [processedIncluded |-> 0, processedFiltered |-> 0,
   eventsSent |-> 0, filteredEvents |-> 0, activeConnections |-> 0]

\* a filter that counts an event as filtered when no classifier is set
MetricsAfterDecideUnwired(event) ==
  IF ~hasClassifier \/ ~ShouldIncludeResult(event)
    THEN [metrics EXCEPT !.processedFiltered = @ + 1, !.filteredEvents = @ + 1]
    ELSE [metrics EXCEPT !.processedIncluded = @ + 1, !.eventsSent = @ + 1]

\* the counters after Decide(event): none changes when no classifier is set
MetricsAfterDecide(event) ==
  IF ~hasClassifier THEN metrics
  ELSE IF ShouldIncludeResult(event)
    THEN [metrics EXCEPT !.processedIncluded = @ + 1, !.eventsSent = @ + 1]
    ELSE [metrics EXCEPT !.processedFiltered = @ + 1, !.filteredEvents = @ + 1]

\* the cache after Decide(event)
CacheAfterDecide(event) ==
  IF ~hasClassifier THEN cache ELSE CacheAfterShouldInclude(event)

(***************************************************************************)
(* The filter called directly, one call after another, as the integration  *)
(* tests call bgs.sovereignEventFilter(event).                             *)
(***************************************************************************)
\* Decide(event), from call to return
CallDecide(event) ==
  /\ Len(history) < MaxCalls
  /\ history' = Append(history,
                   CallRecord("Decide", ShouldIncludeEntry(event).repo,
                              Decide(event),
                              IF hasClassifier THEN ShouldIncludePath(event)
                                               ELSE "noclassifier",
                              0, EmptyMap))
  /\ metrics' = MetricsAfterDecide(event)
  /\ cache' = CacheAfterDecide(event)
  /\ UNCHANGED <<knownDIDs, overridden, snaps, sequentialRest>>
  /\ UNCHANGED <<hasClassifier, source, conn>>
  /\ UNCHANGED <<configVars, singletonVars, valueVars>>

\* an override on the classifier the filter is wired to
OverrideAttached(did) ==
  /\ hasClassifier
  /\ AddCanadianDID(did)

NextFilter ==
  \/ \E event \in SequentialEvents : CallDecide(event)
  \/ \E did \in Subjects : OverrideAttached(did)

(***************************************************************************)
(* DualEndpointRouter: the connections of the two endpoints.               *)
(***************************************************************************)
Conns == 1..NumConns

Credentials == {"missing", "invalid", "valid"}

\* events the shared source emits: a commit of a subject with a keyword and
\* an identity event of a subject without one
SourceEvents == {CommitEvent(SubjectPool[1]), IdentityEvent(SubjectPool[2])}

\* connections are numbered in the order in which they are accepted
NextToAccept(c) ==
  /\ conn[c].state = "Free"
  /\ \A d \in Conns : d < c => conn[d].state # "Free"

\* configurations the relay is started with
RelayConfigs ==
  { c \in SovereignConfigs :
      /\ c.CountryCode \in { <<>>, <<"C", "A">>, <<"X", "X">> }
      /\ c.DataRetentionDays = 30
      /\ c.PrivacyMode = "strict" }

FreeConn ==
  [endpoint |-> "none", state |-> "Free", credential |-> "missing",
   start |-> 0, next |-> 0, sent |-> <<>>, decisions |-> <<>>,
   upgraded |-> FALSE, status |-> 0, ending |-> "none"]

\* the sovereign endpoint is registered only for an enabled configuration
\* that passed validation
SovereignRegistered == sc.Enabled /\ Validate(sc) = NoError

InitRelay ==
  /\ hasClassifier \in BOOLEAN
  /\ source = <<>>
  /\ conn = [c \in Conns |-> FreeConn]
  /\ metrics = ZeroMetrics

\* the relay is not running
IdleRelay ==
  /\ hasClassifier = FALSE
  /\ source = <<>>
  /\ conn = [c \in Conns |-> FreeConn]
  /\ metrics = ZeroMetrics

\* the shared source emits an event
Emit(event) ==
  /\ Len(source) < MaxEvents
  /\ source' = Append(source, event)
  /\ UNCHANGED <<hasClassifier, conn, metrics, cache>>
  /\ UNCHANGED <<classifierRest, configVars, sequentialVars, singletonVars, valueVars>>

\* a client connects to the standard endpoint: it streams at once
ConnectStandard(c) ==
  /\ NextToAccept(c)
  /\ conn' = [conn EXCEPT ![c] = [FreeConn EXCEPT !.endpoint = "standard",
                                                  !.state = "Streaming",
                                                  !.start = Len(source) + 1,
                                                  !.next = Len(source) + 1]]
  /\ UNCHANGED <<hasClassifier, source, metrics, cache>>
  /\ UNCHANGED <<classifierRest, configVars, sequentialVars, singletonVars, valueVars>>

\* a client sends an upgrade request to the sovereign endpoint
ConnectSovereign(c, credential) ==
  /\ NextToAccept(c)
  /\ SovereignRegistered
  /\ conn' = [conn EXCEPT ![c] = [FreeConn EXCEPT !.endpoint = "sovereign",
                                                  !.state = "AwaitingAuth",
                                                  !.credential = credential]]
  /\ UNCHANGED <<hasClassifier, source, metrics, cache>>
  /\ UNCHANGED <<classifierRest, configVars, sequentialVars, singletonVars, valueVars>>

\* an authorization gate that accepts every credential that is present
AuthorizeAnyCredential(c) ==
  /\ conn[c].state = "AwaitingAuth"
  /\ IF conn[c].credential # "missing"
       THEN conn' = [conn EXCEPT ![c].state = "Upgrading"]
       ELSE conn' = [conn EXCEPT ![c].state = "Closed", ![c].status = 401]
  /\ UNCHANGED <<hasClassifier, source, metrics, cache>>
  /\ UNCHANGED <<classifierRest, configVars, sequentialVars, singletonVars, valueVars>>

\* AwaitingAuth: the credential is inspected; a missing or invalid one is
\* rejected with 401 Unauthorized and the connection is closed
Authorize(c) ==
  /\ conn[c].state = "AwaitingAuth"
  /\ IF conn[c].credential = "valid"
       THEN conn' = [conn EXCEPT ![c].state = "Upgrading"]
       ELSE conn' = [conn EXCEPT ![c].state = "Closed", ![c].status = 401]
  /\ UNCHANGED <<hasClassifier, source, metrics, cache>>
  /\ UNCHANGED <<classifierRest, configVars, sequentialVars, singletonVars, valueVars>>

\* Upgrading: the streaming-protocol handshake (101 Switching Protocols)
Upgrade(c) ==
  /\ conn[c].state = "Upgrading"
  /\ conn' = [conn EXCEPT ![c].state = "Streaming",
                          ![c].upgraded = TRUE,
                          ![c].status = 101,
                          ![c].start = Len(source) + 1,
                          ![c].next = Len(source) + 1]
  /\ metrics' = [metrics EXCEPT !.activeConnections = @ + 1]
  /\ UNCHANGED <<hasClassifier, source, cache>>
  /\ UNCHANGED <<classifierRest, configVars, sequentialVars, singletonVars, valueVars>>

\* a sovereign stream that transmits without looking at the decision
StreamSovereignUnfiltered(c) ==
  /\ conn[c].state = "Streaming"
  /\ conn[c].ending = "none"
  /\ conn[c].endpoint = "sovereign"
  /\ conn[c].next <= Len(source)
  /\ LET event == source[conn[c].next]
     IN /\ conn' = [conn EXCEPT ![c].next = @ + 1,
                                ![c].decisions = Append(@, Decide(event)),
                                ![c].sent = Append(@, conn[c].next)]
        /\ metrics' = MetricsAfterDecide(event)
        /\ cache' = CacheAfterDecide(event)
  /\ UNCHANGED <<hasClassifier, source>>
  /\ UNCHANGED <<classifierRest, configVars, sequentialVars, singletonVars, valueVars>>

\* a sovereign stream that puts the newest event in front of what it sent
StreamSovereignNewestFirst(c) ==
  /\ conn[c].state = "Streaming"
  /\ conn[c].ending = "none"
  /\ conn[c].endpoint = "sovereign"
  /\ conn[c].next <= Len(source)
  /\ LET event == source[conn[c].next]
     IN /\ conn' = [conn EXCEPT ![c].next = @ + 1,
                                ![c].decisions = Append(@, Decide(event)),
                                ![c].sent = IF Decide(event)
                                              THEN <<conn[c].next>> \o @
                                              ELSE @]
        /\ metrics' = MetricsAfterDecide(event)
        /\ cache' = CacheAfterDecide(event)
  /\ UNCHANGED <<hasClassifier, source>>
  /\ UNCHANGED <<classifierRest, configVars, sequentialVars, singletonVars, valueVars>>

\* Streaming on the sovereign endpoint: Decide on the next event of the
\* source, transmit it only when the result is true
StreamSovereign(c) ==
  /\ conn[c].state = "Streaming"
  /\ conn[c].ending = "none"
  /\ conn[c].endpoint = "sovereign"
  /\ conn[c].next <= Len(source)
  /\ LET event == source[conn[c].next]
     IN /\ conn' = [conn EXCEPT ![c].next = @ + 1,
                                ![c].decisions = Append(@, Decide(event)),
                                ![c].sent = IF Decide(event)
                                              THEN Append(@, conn[c].next)
                                              ELSE @]
        /\ metrics' = MetricsAfterDecide(event)
        /\ cache' = CacheAfterDecide(event)
  /\ UNCHANGED <<hasClassifier, source>>
  /\ UNCHANGED <<classifierRest, configVars, sequentialVars, singletonVars, valueVars>>

\* a standard stream that forwards only what the sovereign filter includes
StreamStandardFiltered(c) ==
  /\ conn[c].state = "Streaming"
  /\ conn[c].ending = "none"
  /\ conn[c].endpoint = "standard"
  /\ conn[c].next <= Len(source)
  /\ conn' = [conn EXCEPT ![c].next = @ + 1,
                          ![c].sent = IF Decide(source[conn[c].next])
                                        THEN Append(@, conn[c].next)
                                        ELSE @]
  /\ UNCHANGED <<hasClassifier, source, metrics, cache>>
  /\ UNCHANGED <<classifierRest, configVars, sequentialVars, singletonVars, valueVars>>

\* a standard stream on a send path shared by all connections: an event
\* goes out only when no streaming connection is behind
StreamStandardLockstep(c) ==
  /\ conn[c].state = "Streaming"
  /\ conn[c].ending = "none"
  /\ conn[c].endpoint = "standard"
  /\ conn[c].next <= Len(source)
  /\ \A d \in Conns : conn[d].state = "Streaming" => conn[d].next >= conn[c].next
  /\ conn' = [conn EXCEPT ![c].next = @ + 1,
                          ![c].sent = Append(@, conn[c].next)]
  /\ UNCHANGED <<hasClassifier, source, metrics, cache>>
  /\ UNCHANGED <<classifierRest, configVars, sequentialVars, singletonVars, valueVars>>

\* Streaming on the standard endpoint: the next event of the source is
\* forwarded, with no decision taken
StreamStandard(c) ==
  /\ conn[c].state = "Streaming"
  /\ conn[c].ending = "none"
  /\ conn[c].endpoint = "standard"
  /\ conn[c].next <= Len(source)
  /\ conn' = [conn EXCEPT ![c].next = @ + 1,
                          ![c].sent = Append(@, conn[c].next)]
  /\ UNCHANGED <<hasClassifier, source, metrics, cache>>
  /\ UNCHANGED <<classifierRest, configVars, sequentialVars, singletonVars, valueVars>>

\* the client goes away
Disconnect(c) ==
  /\ conn[c].state = "Streaming"
  /\ conn[c].ending = "none"
  /\ conn' = [conn EXCEPT ![c].ending = "disconnect"]
  /\ UNCHANGED <<hasClassifier, source, metrics, cache>>
  /\ UNCHANGED <<classifierRest, configVars, sequentialVars, singletonVars, valueVars>>

\* the context of the connection is cancelled
CancelContext(c) ==
  /\ conn[c].state = "Streaming"
  /\ conn[c].ending = "none"
  /\ conn' = [conn EXCEPT ![c].ending = "cancel"]
  /\ UNCHANGED <<hasClassifier, source, metrics, cache>>
  /\ UNCHANGED <<classifierRest, configVars, sequentialVars, singletonVars, valueVars>>

\* a write of the next event to the client fails; the event is not
\* transmitted
SendError(c) ==
  /\ conn[c].state = "Streaming"
  /\ conn[c].ending = "none"
  /\ conn[c].next <= Len(source)
  /\ conn' = [conn EXCEPT ![c].ending = "sendError"]
  /\ UNCHANGED <<hasClassifier, source, metrics, cache>>
  /\ UNCHANGED <<classifierRest, configVars, sequentialVars, singletonVars, valueVars>>

\* a handler that leaves Streaming only after it has sent every event of
\* the source
ReleaseAfterDrain(c) ==
  /\ conn[c].state = "Streaming"
  /\ conn[c].ending # "none"
  /\ conn[c].next > Len(source)
  /\ conn' = [conn EXCEPT ![c].state = "Closed", ![c].ending = "none"]
  /\ metrics' = IF conn[c].endpoint = "sovereign"
                  THEN [metrics EXCEPT !.activeConnections = @ - 1]
                  ELSE metrics
  /\ UNCHANGED <<hasClassifier, source, cache>>
  /\ UNCHANGED <<classifierRest, configVars, sequentialVars, singletonVars, valueVars>>

\* the handler reacts to the disconnect, the cancellation or the send
\* error: resources are released and the connection leaves the
\* active-connection accounting
Release(c) ==
  /\ conn[c].state = "Streaming"
  /\ conn[c].ending # "none"
  /\ conn' = [conn EXCEPT ![c].state = "Closed", ![c].ending = "none"]
  /\ metrics' = IF conn[c].endpoint = "sovereign"
                  THEN [metrics EXCEPT !.activeConnections = @ - 1]
                  ELSE metrics
  /\ UNCHANGED <<hasClassifier, source, cache>>
  /\ UNCHANGED <<classifierRest, configVars, sequentialVars, singletonVars, valueVars>>

\* Streaming ends: client disconnect, context cancellation or a send error,
\* and the handler's reaction to it, taken as one step
Close(c) ==
  /\ conn[c].state = "Streaming"
  /\ conn[c].ending = "none"
  /\ conn' = [conn EXCEPT ![c].state = "Closed"]
  /\ metrics' = IF conn[c].endpoint = "sovereign"
                  THEN [metrics EXCEPT !.activeConnections = @ - 1]
                  ELSE metrics
  /\ UNCHANGED <<hasClassifier, source, cache>>
  /\ UNCHANGED <<classifierRest, configVars, sequentialVars, singletonVars, valueVars>>

NextRelay ==
  \/ \E event \in SourceEvents : Emit(event)
  \/ \E c \in Conns :
       \/ ConnectStandard(c)
       \/ \E credential \in Credentials : ConnectSovereign(c, credential)
       \/ Authorize(c)
       \/ Upgrade(c)
       \/ StreamSovereign(c)
       \/ StreamStandard(c)
       \/ Close(c)

\* the router with the end of a connection in two steps: what ends it, and
\* the handler's reaction
NextRelaySteps ==
  \/ \E event \in SourceEvents : Emit(event)
  \/ \E c \in Conns :
       \/ ConnectStandard(c)
       \/ \E credential \in Credentials : ConnectSovereign(c, credential)
       \/ Authorize(c)
       \/ Upgrade(c)
       \/ StreamSovereign(c)
       \/ StreamStandard(c)
       \/ Disconnect(c)
       \/ CancelContext(c)
       \/ SendError(c)
       \/ Release(c)

(***************************************************************************)
(* NewSovereigntyMetrics and ResetSovereigntyMetricsForTesting.  The       *)
(* function passed to sovereigntyMetricsOnce.Do builds the five            *)
(* instruments with promauto, which registers each with the default        *)
(* registerer and panics when the name is registered already.  Nothing in  *)
(* the package recovers a panic, so a panic ends the process.              *)
(***************************************************************************)
MetricNames ==
  {"sovereignty_events_processed_total",
   "sovereignty_filter_latency_seconds",
   "sovereignty_active_connections",
   "sovereignty_canadian_events_sent_total",
   "sovereignty_filtered_events_total"}

\* a nil *SovereigntyMetrics
NilInstance == 0

\* sync.Once{}
FreshOnce == [done |-> 0, m |-> 0]

\* the package at process start
InitSingleton ==
  /\ sovereigntyMetricsInstance = NilInstance
  /\ sovereigntyMetricsOnce = FreshOnce
  /\ registry = {}
  /\ registrations = 0
  /\ bodyRuns = 0
  /\ mpc = [p \in Procs |-> "idle"]
  /\ slow = [p \in Procs |-> FALSE]
  /\ newCalls = 0
  /\ results = <<>>
  /\ resets = 0
  /\ discarded = {}
  /\ crashed = FALSE

\* what no step of a constructor call changes
singletonRest == <<newCalls, results, resets, discarded>>

\* caller p calls NewSovereigntyMetrics()
CallNewSovereigntyMetrics(p) ==
  /\ ~crashed
  /\ mpc[p] = "idle"
  /\ newCalls < MaxCalls
  /\ newCalls' = newCalls + 1
  /\ mpc' = [mpc EXCEPT ![p] = "L29"]
  /\ slow' = [slow EXCEPT ![p] = FALSE]
  /\ UNCHANGED <<sovereigntyMetricsInstance, sovereigntyMetricsOnce,
                 registry, registrations, bodyRuns, results, resets,
                 discarded, crashed>>
  /\ UNCHANGED <<classifierVars, configVars, relayVars, sequentialVars, valueVars>>

\* Once.Do: the atomic load of done; doSlow is entered when it is 0
OnceDo(p) ==
  /\ ~crashed
  /\ mpc[p] = "L29"
  /\ IF sovereigntyMetricsOnce.done = 1
       THEN mpc' = [mpc EXCEPT ![p] = "L66"] /\ slow' = slow
       ELSE mpc' = [mpc EXCEPT ![p] = "doSlow"]
            /\ slow' = [slow EXCEPT ![p] = TRUE]
  /\ UNCHANGED <<sovereigntyMetricsInstance, sovereigntyMetricsOnce,
                 registry, registrations, bodyRuns, crashed, singletonRest>>
  /\ UNCHANGED <<classifierVars, configVars, relayVars, sequentialVars, valueVars>>

\* Once.doSlow: o.m.Lock()
OnceLock(p) ==
  /\ ~crashed
  /\ mpc[p] = "doSlow"
  /\ sovereigntyMetricsOnce.m = 0
  /\ sovereigntyMetricsOnce' = [sovereigntyMetricsOnce EXCEPT !.m = p]
  /\ mpc' = [mpc EXCEPT ![p] = "locked"]
  /\ UNCHANGED <<sovereigntyMetricsInstance, registry, registrations,
                 bodyRuns, slow, crashed, singletonRest>>
  /\ UNCHANGED <<classifierVars, configVars, relayVars, sequentialVars, valueVars>>

\* the function passed to Do, run by caller p: either a name is registered
\* already and promauto panics (the deferred Store and Unlock of doSlow
\* run, the panic ends the process), or the five instruments are
\* registered and the new struct is assigned to the package variable
ConstructInstance(p) ==
  /\ bodyRuns' = bodyRuns + 1
  /\ IF registry \cap MetricNames # {}
       THEN /\ crashed' = TRUE
            /\ sovereigntyMetricsOnce' = [done |-> 1, m |-> 0]
            /\ mpc' = [mpc EXCEPT ![p] = "panic"]
            /\ UNCHANGED <<sovereigntyMetricsInstance, registry,
                           registrations>>
       ELSE /\ registry' = registry \cup MetricNames
            /\ registrations' = registrations + 1
            /\ sovereigntyMetricsInstance' = registrations + 1
            /\ mpc' = [mpc EXCEPT ![p] = "store"]
            /\ UNCHANGED <<sovereigntyMetricsOnce, crashed>>

\* a doSlow that runs the function without looking at done again
DoSlowBodyUnchecked(p) ==
  /\ ~crashed
  /\ mpc[p] = "locked"
  /\ ConstructInstance(p)
  /\ UNCHANGED <<slow, singletonRest>>
  /\ UNCHANGED <<classifierVars, configVars, relayVars, sequentialVars, valueVars>>

\* Once.doSlow with the mutex held: if done is still 0 the function runs
DoSlowBody(p) ==
  /\ ~crashed
  /\ mpc[p] = "locked"
  /\ IF sovereigntyMetricsOnce.done = 0
       THEN ConstructInstance(p)
       ELSE /\ mpc' = [mpc EXCEPT ![p] = "unlock"]
            /\ UNCHANGED <<sovereigntyMetricsInstance,
                           sovereigntyMetricsOnce, registry, registrations,
                           bodyRuns, crashed>>
  /\ UNCHANGED <<slow, singletonRest>>
  /\ UNCHANGED <<classifierVars, configVars, relayVars, sequentialVars, valueVars>>

\* a doSlow that unlocks without storing done
OnceStoreDoneLost(p) ==
  /\ ~crashed
  /\ mpc[p] = "store"
  /\ sovereigntyMetricsOnce' = [sovereigntyMetricsOnce EXCEPT !.m = 0]
  /\ mpc' = [mpc EXCEPT ![p] = "L66"]
  /\ UNCHANGED <<sovereigntyMetricsInstance, registry, registrations,
                 bodyRuns, slow, crashed, singletonRest>>
  /\ UNCHANGED <<classifierVars, configVars, relayVars, sequentialVars, valueVars>>

\* the deferred calls of doSlow after the function returned:
\* o.done.Store(1), then o.m.Unlock()
OnceStoreDone(p) ==
  /\ ~crashed
  /\ mpc[p] = "store"
  /\ sovereigntyMetricsOnce' = [done |-> 1, m |-> 0]
  /\ mpc' = [mpc EXCEPT ![p] = "L66"]
  /\ UNCHANGED <<sovereigntyMetricsInstance, registry, registrations,
                 bodyRuns, slow, crashed, singletonRest>>
  /\ UNCHANGED <<classifierVars, configVars, relayVars, sequentialVars, valueVars>>

\* the deferred o.m.Unlock() of doSlow when the function was not run
OnceUnlock(p) ==
  /\ ~crashed
  /\ mpc[p] = "unlock"
  /\ sovereigntyMetricsOnce' = [sovereigntyMetricsOnce EXCEPT !.m = 0]
  /\ mpc' = [mpc EXCEPT ![p] = "L66"]
  /\ UNCHANGED <<sovereigntyMetricsInstance, registry, registrations,
                 bodyRuns, slow, crashed, singletonRest>>
  /\ UNCHANGED <<classifierVars, configVars, relayVars, sequentialVars, valueVars>>

\* return sovereigntyMetricsInstance
ReturnInstance(p) ==
  /\ ~crashed
  /\ mpc[p] = "L66"
  /\ results' = Append(results,
                   [caller |-> p, inst |-> sovereigntyMetricsInstance,
                    epoch |-> resets, slow |-> slow[p]])
  /\ mpc' = [mpc EXCEPT ![p] = "idle"]
  /\ UNCHANGED <<sovereigntyMetricsInstance, sovereigntyMetricsOnce,
                 registry, registrations, bodyRuns, slow, newCalls, resets,
                 discarded, crashed>>
  /\ UNCHANGED <<classifierVars, configVars, relayVars, sequentialVars, valueVars>>

\* ResetSovereigntyMetricsForTesting(), called between tests, while no
\* constructor call is running: the two package variables are assigned,
\* the default registerer is not touched
ResetSovereigntyMetricsForTesting ==
  /\ ~crashed
  /\ \A p \in Procs : mpc[p] = "idle"
  /\ resets < MaxResets
  /\ resets' = resets + 1
  /\ discarded' = discarded \cup ({sovereigntyMetricsInstance} \ {NilInstance})
  /\ sovereigntyMetricsInstance' = NilInstance
  /\ sovereigntyMetricsOnce' = FreshOnce
  /\ UNCHANGED <<registry, registrations, bodyRuns, mpc, slow, newCalls,
                 results, crashed>>
  /\ UNCHANGED <<classifierVars, configVars, relayVars, sequentialVars, valueVars>>

NextSingleton ==
  \/ ResetSovereigntyMetricsForTesting
  \/ \E p \in Procs :
       \/ CallNewSovereigntyMetrics(p)
       \/ OnceDo(p)
       \/ OnceLock(p)
       \/ DoSlowBody(p)
       \/ OnceStoreDone(p)
       \/ OnceUnlock(p)
       \/ ReturnInstance(p)

(***************************************************************************)
(* Constructors and conversions: ConvertXRPCToStreamEvent of cmd/relay,    *)
(* NewFilterResult and NewHashOnlyFilterResult, and the two constructors   *)
(* of the classifier.                                                      *)
(***************************************************************************)
\* no call made yet
NoValue == [op |-> "none"]

IdleValues ==
  /\ arg = NoValue
  /\ result = NoValue

\* wire events whose payload carries a sequence number: <<repo, seq>>
Seqs == 0..MaxSeq

WireEvents ==
  {NilEvent, EmptyEvent}
    \cup { [EmptyEvent EXCEPT !.RepoCommit = <<s, n>>] : s \in Subjects, n \in Seqs }
    \cup { [EmptyEvent EXCEPT !.RepoIdentity = <<s, n>>] : s \in Subjects, n \in Seqs }
    \cup { [EmptyEvent EXCEPT !.RepoAccount = <<s, n>>] : s \in Subjects, n \in Seqs }
    \cup { [EmptyEvent EXCEPT !.RepoSync = <<s, n>>] : s \in Subjects, n \in Seqs }

\* a nil *bgs.StreamEvent
NilStreamEvent ==
  [isNil |-> TRUE, Repo |-> <<>>, Kind |-> "", Seq |-> 0]

\* &bgs.StreamEvent{Time: time.Now()}: the other fields hold their zero
\* values; Time is left out of the record
ZeroStreamEvent ==
  [isNil |-> FALSE, Repo |-> <<>>, Kind |-> "", Seq |-> 0]

\* ConvertXRPCToStreamEvent(xrpc): the if-chain has the branches RepoCommit,
\* RepoIdentity and RepoAccount and no other
ConvertXRPCToStreamEvent(xrpc) ==
  IF xrpc.isNil THEN NilStreamEvent
  ELSE IF xrpc.RepoCommit # NoPayload
    THEN [ZeroStreamEvent EXCEPT !.Repo = xrpc.RepoCommit[1], !.Kind = "commit",
                                 !.Seq = xrpc.RepoCommit[2]]
  ELSE IF xrpc.RepoIdentity # NoPayload
    THEN [ZeroStreamEvent EXCEPT !.Repo = xrpc.RepoIdentity[1], !.Kind = "identity",
                                 !.Seq = xrpc.RepoIdentity[2]]
  ELSE IF xrpc.RepoAccount # NoPayload
    THEN [ZeroStreamEvent EXCEPT !.Repo = xrpc.RepoAccount[1], !.Kind = "account",
                                 !.Seq = xrpc.RepoAccount[2]]
  ELSE ZeroStreamEvent

\* the reasons passed to the FilterResult constructors
Reasons == {"", "canadian keyword", "not canadian", "hash only"}

\* NewFilterResult(pass, reason): HashOnly keeps its zero value
NewFilterResult(pass, reason) ==
  [Pass |-> pass, Reason |-> reason, HashOnly |-> FALSE]

\* a hash-only result that also passes
NewHashOnlyPassing(reason) ==
  [Pass |-> TRUE, Reason |-> reason, HashOnly |-> TRUE]

\* NewHashOnlyFilterResult(reason)
NewHashOnlyFilterResult(reason) ==
  [Pass |-> FALSE, Reason |-> reason, HashOnly |-> TRUE]

\* 24 * time.Hour, in hours
TtlHours == 24

\* NewCanadianGeographicFilter(): two empty maps and the ttl
NewCanadianGeographicFilter ==
  [cache |-> EmptyMap, ttl |-> TtlHours, knownDIDs |-> EmptyMap]

\* the country codes passed to NewGeographicFilter
FilterCountries == {<<>>, <<"C", "A">>, <<"U", "S">>, <<"F", "R">>, <<"Z", "Z">>}

\* a constructor whose filter for a country other than CA starts with every
\* subject cached as excluded
NewGeographicFilterByCountry(countryCode) ==
  IF countryCode = <<"C", "A">>
    THEN NewCanadianGeographicFilter
    ELSE [NewCanadianGeographicFilter EXCEPT !.cache = [s \in Subjects |-> FALSE]]

\* NewGeographicFilter(countryCode): countryCode is not used
NewGeographicFilter(countryCode) == NewCanadianGeographicFilter

CallConvertXRPCToStreamEvent(xrpc) ==
  /\ arg' = [op |-> "ConvertXRPCToStreamEvent", xrpc |-> xrpc]
  /\ result' = ConvertXRPCToStreamEvent(xrpc)
  /\ UNCHANGED <<classifierVars, configVars, relayVars, sequentialVars, singletonVars>>

CallNewFilterResult(pass, reason) ==
  /\ arg' = [op |-> "NewFilterResult", pass |-> pass, reason |-> reason]
  /\ result' = NewFilterResult(pass, reason)
  /\ UNCHANGED <<classifierVars, configVars, relayVars, sequentialVars, singletonVars>>

CallNewHashOnlyFilterResult(reason) ==
  /\ arg' = [op |-> "NewHashOnlyFilterResult", reason |-> reason]
  /\ result' = NewHashOnlyFilterResult(reason)
  /\ UNCHANGED <<classifierVars, configVars, relayVars, sequentialVars, singletonVars>>

NextValues ==
  \/ \E xrpc \in WireEvents : CallConvertXRPCToStreamEvent(xrpc)
  \/ \E pass \in BOOLEAN, reason \in Reasons : CallNewFilterResult(pass, reason)
  \/ \E reason \in Reasons : CallNewHashOnlyFilterResult(reason)

(***************************************************************************)
(* A classifier built by one of its two constructors and then used by one  *)
(* caller.                                                                 *)
(***************************************************************************)
\* the program builds its classifier with NewCanadianGeographicFilter()
CallNewCanadianGeographicFilter ==
  /\ arg = NoValue
  /\ arg' = [op |-> "NewCanadianGeographicFilter"]
  /\ result' = NewCanadianGeographicFilter
  /\ cache' = result'.cache
  /\ knownDIDs' = result'.knownDIDs
  /\ UNCHANGED <<overridden, sequentialRest>>
  /\ UNCHANGED <<configVars, relayVars, sequentialVars, singletonVars>>

\* the program builds its classifier with NewGeographicFilter(countryCode)
CallNewGeographicFilter(countryCode) ==
  /\ arg = NoValue
  /\ arg' = [op |-> "NewGeographicFilter", countryCode |-> countryCode]
  /\ result' = NewGeographicFilter(countryCode)
  /\ cache' = result'.cache
  /\ knownDIDs' = result'.knownDIDs
  /\ UNCHANGED <<overridden, sequentialRest>>
  /\ UNCHANGED <<configVars, relayVars, sequentialVars, singletonVars>>

\* a query on the classifier that was built
QueryBuilt(event) ==
  /\ arg # NoValue
  /\ ShouldIncludeInSovereignFeed(event)

\* an override on the classifier that was built
OverrideBuilt(did) ==
  /\ arg # NoValue
  /\ AddCanadianDID(did)

NextCountry ==
  \/ CallNewCanadianGeographicFilter
  \/ \E countryCode \in FilterCountries : CallNewGeographicFilter(countryCode)
  \/ \E event \in SequentialEvents : QueryBuilt(event)
  \/ \E did \in Subjects : OverrideBuilt(did)

(***************************************************************************)
(* Specifications.                                                         *)
(*   Spec         goroutines calling one classifier concurrently           *)
(*   SpecConfig   Validate on every configuration of SovereignConfigs      *)
(*   SpecRelay    the relay with its connections, started with one of      *)
(*                RelayConfigs, each Decide running alone                  *)
(*   SpecSequential   one caller of the classifier, each call running      *)
(*                alone, with the maps GetCache returned to it             *)
(*   SpecSingleton    goroutines calling NewSovereigntyMetrics             *)
(*                concurrently, and the reset between tests                *)
(*   SpecFair, SpecRelayFair   Spec and the router under fair scheduling   *)
(*   SpecFilter   the filter called directly, one call after another       *)
(*   SpecValues   the converter and the FilterResult constructors          *)
(*   SpecCountry  a classifier built by either constructor, then used by   *)
(*                one caller                                               *)
(***************************************************************************)
Init ==
  InitClassifier /\ IdleConfig /\ IdleRelay /\ IdleSequential /\ InitSingleton
    /\ IdleValues

Next == NextClassifier

Spec == Init /\ [][Next]_vars

InitOfConfig ==
  InitClassifier /\ InitConfig /\ IdleRelay /\ IdleSequential /\ InitSingleton
    /\ IdleValues

SpecConfig == InitOfConfig /\ [][NextConfig]_vars

InitOfRelay ==
  /\ InitClassifier
  /\ sc \in RelayConfigs
  /\ validateErr = Validate(sc)
  /\ endpoints = NoEndpoints
  /\ InitRelay
  /\ IdleSequential
  /\ InitSingleton
  /\ IdleValues

SpecRelay == InitOfRelay /\ [][NextRelay]_vars

\* the connection accepted first; its client may stop reading at any time
SlowConn == CHOOSE c \in Conns : \A d \in Conns : c <= d

\* The router with its handlers scheduled fairly.  Each connection has its
\* own handler and send path: the handler of every connection reacts to a
\* disconnect, a cancellation or a send error, and the handler of every
\* connection but SlowConn keeps sending.  The stream steps of SlowConn are
\* left without fairness: its client may be stalled for ever.
SpecRelayFair ==
  /\ InitOfRelay
  /\ [][NextRelaySteps]_vars
  /\ \A c \in Conns : WF_vars(Release(c))
  /\ \A c \in Conns \ {SlowConn} : WF_vars(StreamSovereign(c) \/ StreamStandard(c))

\* The steps a goroutine takes inside a call once the call has started.  The
\* Go scheduler runs every runnable goroutine, and a goroutine waiting for
\* the mutex gets it once the mutex stays free.
StepOf(p) ==
  \/ RLockCache(p) \/ CheckCache(p) \/ RLockKnown(p) \/ CheckKnown(p)
  \/ KeywordHeuristic(p) \/ LockSetCached(p) \/ WriteSetCached(p)
  \/ LockAdd(p) \/ WriteAdd(p)
  \/ RLockGetCache(p) \/ CopyGetCache(p)
  \/ Return(p)

\* The concurrent classifier under fair scheduling of started calls; whether
\* and when a caller starts a call is left open.
SpecFair == Spec /\ \A p \in Procs : WF_vars(StepOf(p))

InitOfFilter ==
  InitClassifier /\ IdleConfig /\ InitRelay /\ IdleSequential /\ InitSingleton
    /\ IdleValues

SpecFilter == InitOfFilter /\ [][NextFilter]_vars

SpecValues == Init /\ [][NextValues]_vars

SpecCountry == Init /\ [][NextCountry]_vars

SpecSequential == Init /\ [][NextSequential]_vars

SpecSingleton == Init /\ [][NextSingleton]_vars

(***************************************************************************)
(* Properties of the classifier.                                           *)
(***************************************************************************)
\* two characters that are equal, or the two cases of one letter
SameLetter(a, b) ==
  \/ a = b
  \/ \E i \in 1..Len(UpperLetters) : {a, b} = {UpperLetters[i], LowerLetters[i]}

\* kw occurs in s as a substring, letter case ignored
OccursIgnoringCase(s, kw) ==
  \E i \in 1..Len(s) :
    /\ i + Len(kw) - 1 <= Len(s)
    /\ \A j \in 1..Len(kw) : SameLetter(s[i + j - 1], kw[j])

\* the subject identifiers that contain a jurisdiction keyword
KeywordSubjects ==
  { s \in Subjects :
      \E k \in 1..Len(canadianKeywords) : OccursIgnoringCase(s, canadianKeywords[k]) }

Returned(p) == pc[p] = "ret" /\ frame[p].op = "ShouldInclude"

\* C1: a ShouldInclude call on a nil event, or on an event with none of the
\* commit, identity, account and sync payloads, returns false at once: it
\* never enters isLikelyCanadian and its result is never true.
C1_NoSubjectIsExcluded ==
  \A p \in Procs :
    frame[p].ev # <<>> =>
      /\ pc[p] = "ret"
      /\ frame[p].path = "nosubject"
      /\ frame[p].ret = FALSE

\* C1 witness: a call on the nil event and a call on the empty event have
\* both returned false.
C1_Witness ==
  \E p, q \in Procs :
    /\ Returned(p) /\ frame[p].ev = <<NilEvent>> /\ frame[p].ret = FALSE
    /\ Returned(q) /\ frame[q].ev = <<EmptyEvent>> /\ frame[q].ret = FALSE

\* C2: every ShouldInclude call for a subject that starts after
\* AddCanadianDID for that subject has returned, returns true.
C2_OverrideAlwaysWins ==
  \A p \in Procs :
    (Returned(p) /\ frame[p].after) => frame[p].ret = TRUE

\* C3: once AddCanadianDID(id) has returned, the cache entry for id is true
\* and stays true, under every interleaving.
C3_OverrideStaysCached ==
  \A s \in overridden : s \in DOMAIN cache /\ cache[s] = TRUE

\* C4: a ShouldInclude call that finds neither a cache entry nor an override
\* for its subject returns true if and only if the subject contains one of
\* the keywords, letter case ignored.
C4_HeuristicIsKeywordMatch ==
  \A p \in Procs :
    (Returned(p) /\ frame[p].path = "heuristic") =>
      (frame[p].ret = TRUE <=> frame[p].did \in KeywordSubjects)

\* C4 witness: one call matched an upper-case keyword and returned true,
\* another found no keyword and returned false.
C4_Witness ==
  \E p, q \in Procs :
    /\ Returned(p) /\ frame[p].path = "heuristic"
    /\ frame[p].did = SubjectPool[3] /\ frame[p].ret = TRUE
    /\ Returned(q) /\ frame[q].path = "heuristic"
    /\ frame[q].did = SubjectPool[2] /\ frame[q].ret = FALSE

(***************************************************************************)
(* Properties of the classifier used by one caller.                        *)
(***************************************************************************)
\* the i-th call is a ShouldInclude query with a subject
IsQuery(i) ==
  history[i].op = "ShouldInclude" /\ history[i].path # "nosubject"

\* the i-th call writes a cache entry for s when s has none: a query of s,
\* or an override of s
Caches(i, s) ==
  /\ history[i].did = s
  /\ IsQuery(i) \/ history[i].op \in {"AddCanadianDID", "AddKnownSubject"}

\* the value the i-th call leaves in the cache for its subject
CachedValue(i) ==
  IF history[i].op \in {"AddCanadianDID", "AddKnownSubject"}
    THEN TRUE
    ELSE history[i].ret

\* C13: once a subject has a cache entry, written by a query or by an
\* override, every later ShouldInclude query for that subject returns the
\* value that was cached first, whatever queries and overrides come between.
C13_FirstCachedValueIsReturned ==
  \A s \in Subjects :
    \A i \in 1..Len(history) :
      (Caches(i, s) /\ \A h \in 1..(i - 1) : ~Caches(h, s)) =>
        \A j \in (i + 1)..Len(history) :
          (IsQuery(j) /\ history[j].did = s) =>
            history[j].ret = CachedValue(i)

\* C14: after a ShouldInclude query for subject s returned v, a GetCache
\* that follows immediately returns a map with s mapped to v, and a
\* ShouldInclude query for s that follows immediately returns v from the
\* cache; v is true exactly for the subjects with a keyword, when no
\* override was made.
C14_ResultIsCached ==
  \A i \in 1..Len(history) :
    IsQuery(i) =>
      LET s == history[i].did
          v == history[i].ret
      IN /\ (history[i].path = "heuristic") => (v <=> s \in KeywordSubjects)
         /\ i < Len(history) =>
              /\ history[i + 1].op = "GetCache" =>
                   /\ s \in DOMAIN history[i + 1].snap
                   /\ history[i + 1].snap[s] = v
              /\ (IsQuery(i + 1) /\ history[i + 1].did = s) =>
                   /\ history[i + 1].ret = v
                   /\ history[i + 1].path = "cache"

\* C14 witness: a query of toronto-user-123 returned true by the heuristic,
\* the query that followed returned true from the cache, and the GetCache
\* after it returned a map with that subject mapped to true.
C14_Witness ==
  /\ Len(history) = 3
  /\ IsQuery(1) /\ history[1].did = SubjectPool[1]
  /\ history[1].path = "heuristic" /\ history[1].ret = TRUE
  /\ IsQuery(2) /\ history[2].did = SubjectPool[1]
  /\ history[2].path = "cache" /\ history[2].ret = TRUE
  /\ history[3].op = "GetCache"
  /\ history[3].snap = MapPut(EmptyMap, SubjectPool[1], TRUE)

\* the last call is a write or a delete of the caller in a returned map
CallerWroteSnapshot ==
  /\ Len(history') = Len(history) + 1
  /\ history'[Len(history')].op \in {"WriteSnapshot", "DeleteSnapshot"}

\* C18: a write or a delete in a map GetCache returned changes neither the
\* classifier's cache nor the result of a later ShouldInclude query, and a
\* step that changes the cache changes none of the maps already returned.
C18_SnapshotIsACopy ==
  [][/\ CallerWroteSnapshot =>
          /\ cache' = cache
          /\ \A event \in SequentialEvents :
               ShouldIncludeResult(event)' = ShouldIncludeResult(event)
     /\ cache' # cache =>
          \A i \in 1..Len(history) :
            history[i].op = "GetCache" =>
              Deref(history[i].ref)' = Deref(history[i].ref)
     /\ ~CallerWroteSnapshot =>
          \A r \in 1..Len(snaps) : snaps'[r] = snaps[r]]_vars

\* C18 witness: the caller has written false for toronto-user-123 in a
\* returned map where it was true, and the cache still maps it to true.
C18_Witness ==
  /\ Len(history) = 3
  /\ history[2].op = "GetCache"
  /\ history[2].snap = MapPut(EmptyMap, SubjectPool[1], TRUE)
  /\ history[3].op = "WriteSnapshot"
  /\ history[3].ref = history[2].ref
  /\ history[3].did = SubjectPool[1] /\ history[3].ret = FALSE
  /\ cache = MapPut(EmptyMap, SubjectPool[1], TRUE)

(***************************************************************************)
(* Properties of SovereignConfig.Validate.                                 *)
(***************************************************************************)
\* the allow-list of country codes
AllowedCodes ==
  { <<"C", "A">>, <<"U", "S">>, <<"G", "B">>, <<"F", "R">>,
    <<"D", "E">>, <<"A", "U">>, <<"N", "Z">>, <<"J", "P">>,
    <<"K", "R">>, <<"I", "N">>, <<"B", "R">>, <<"M", "X">> }

\* code is an allow-listed code, letter case ignored
IsAllowListed(code) ==
  \E a \in AllowedCodes :
    /\ Len(code) = Len(a)
    /\ \A j \in 1..Len(a) : SameLetter(code[j], a[j])

\* C9: Validate on a configuration with Enabled = false returns no error,
\* whatever the country code, the retention days and the privacy mode are.
C9_DisabledIsValid ==
  (validateErr # NotValidated /\ ~sc.Enabled) => validateErr = NoError

\* C9 witness: a disabled configuration with the country code XX, which is
\* not allow-listed, has been validated with no error.
C9_Witness ==
  /\ ~sc.Enabled
  /\ sc.CountryCode = <<"X", "X">>
  /\ sc.PrivacyMode = "standard"
  /\ validateErr = NoError

DifferOnlyInCase(a, b) ==
  /\ Len(a) = Len(b)
  /\ \A j \in 1..Len(a) : SameLetter(a[j], b[j])

C12_ErrorNamesConstraint ==
  (validateErr \notin {NotValidated, NoError} /\ sc.Enabled) =>
    /\ Cardinality({ErrRequired, ErrLength, ErrInvalid}) = 3
    /\ sc.CountryCode = <<>> => validateErr = ErrRequired
    /\ (sc.CountryCode # <<>> /\ Len(sc.CountryCode) # 2)
         => validateErr = ErrLength
    /\ Len(sc.CountryCode) = 2 => validateErr = ErrInvalid

\* the members of an endpoint list
PathsOf(list) == { list[i] : i \in 1..Len(list) }

\* C19: the endpoint list computed for a configuration contains the standard
\* path /xrpc/com.atproto.sync.subscribeRepos, whether sovereignty is enabled
\* or not and whether the country code is valid or not.
C19_StandardAlwaysRegistered ==
  endpoints # NoEndpoints =>
    <<"/", "x", "r", "p", "c", "/", "c", "o", "m", ".", "a", "t", "p", "r", "o", "t", "o",
       ".", "s", "y", "n", "c", ".", "s", "u", "b", "s", "c", "r", "i", "b", "e",
       "R", "e", "p", "o", "s">> \in PathsOf(endpoints)

\* C19 witness: the list of an enabled configuration with the code CA has
\* been computed; it holds the standard path and a second path.
C19_Witness ==
  /\ sc.Enabled
  /\ sc.CountryCode = <<"C", "A">>
  /\ Len(endpoints) = 2
  /\ endpoints[1] = StandardEndpoint

\* the sovereign path of a jurisdiction code: the lower-cased code in place
\* of the namespace com
SovereignPath(code) ==
  <<"/", "x", "r", "p", "c", "/">> \o ToLower(code) \o
  SubSeq(StandardEndpoint, 10, Len(StandardEndpoint))

\* C20: for every allow-listed jurisdiction code, the endpoint list computed
\* for the configuration contains the sovereign path of that code if and
\* only if Enabled = true.
C20_SovereignIffEnabled ==
  (endpoints # NoEndpoints /\ IsAllowListed(sc.CountryCode)) =>
    (SovereignPath(sc.CountryCode) \in PathsOf(endpoints) <=> sc.Enabled)

(***************************************************************************)
(* Properties of the metrics singleton.                                    *)
(***************************************************************************)
\* C15: constructor calls with no reset between them return one and the
\* same instance, which is not nil, and as long as no reset has set an
\* instance aside the instrument set is registered once and never a second
\* time.
C15_SameInstanceEveryCall ==
  /\ \A i, j \in 1..Len(results) :
       results[i].epoch = results[j].epoch =>
         /\ results[i].inst = results[j].inst
         /\ results[i].inst # NilInstance
  /\ discarded = {} =>
       /\ ~crashed
       /\ results # <<>> => (registry = MetricNames /\ registrations = 1)

\* C15 witness: one caller has made two calls, one after the other, with no
\* reset; the second took the fast path of Once and both returned the same
\* instance.
C15_Witness ==
  /\ resets = 0
  /\ Len(results) >= 2
  /\ results[1].caller = results[2].caller
  /\ results[1].slow /\ ~results[2].slow
  /\ results[1].inst = results[2].inst
  /\ results[1].inst # NilInstance

\* C16: when constructor calls run concurrently before any reset, the
\* function passed to Do runs at most once, a caller is at its return
\* statement only when construction has completed (done is stored and
\* the instance assigned), and all callers get the same instance, not nil.
C16_ConstructOnceUnderConcurrency ==
  resets = 0 =>
    /\ bodyRuns <= 1
    /\ \A p \in Procs :
         mpc[p] = "L66" =>
           /\ bodyRuns = 1
           /\ sovereigntyMetricsOnce.done = 1
           /\ sovereigntyMetricsInstance # NilInstance
    /\ \A i \in 1..Len(results) :
         /\ results[i].inst = sovereigntyMetricsInstance
         /\ results[i].inst # NilInstance

\* C16 witness: two callers both found done = 0, both went through doSlow,
\* the function ran once and both returned the same instance.
C16_Witness ==
  /\ resets = 0
  /\ bodyRuns = 1
  /\ \E i, j \in 1..Len(results) :
       /\ results[i].caller # results[j].caller
       /\ results[i].slow /\ results[j].slow
       /\ results[i].inst = results[j].inst
       /\ results[i].inst # NilInstance

\* C17: once a reset has set an instance aside, a constructor call does not
\* panic on a duplicate registration, and what it returns is an instance
\* that is not nil and is none of those set aside.
C17_FreshInstanceAfterReset ==
  discarded # {} =>
    /\ ~crashed
    /\ \A i \in 1..Len(results) :
         results[i].epoch = resets =>
           /\ results[i].inst # NilInstance
           /\ results[i].inst \notin discarded

(***************************************************************************)
(* Properties of the relay's two endpoints.                                *)
(***************************************************************************)
Sovereign(c) == conn[c].endpoint = "sovereign"
Standard(c) == conn[c].endpoint = "standard"

\* the source event whose decision is decisions[i] of connection c
DecidedEvent(c, i) == source[conn[c].start + i - 1]

\* C5: with no classifier attached, Decide returned false for every event a
\* sovereign connection has processed, and nothing has been transmitted on
\* the sovereign feed.
C5_NoClassifierExcludesAll ==
  ~hasClassifier =>
    \A c \in Conns :
      Sovereign(c) =>
        /\ \A i \in 1..Len(conn[c].decisions) : conn[c].decisions[i] = FALSE
        /\ conn[c].sent = <<>>

\* C5 witness: with no classifier attached, Decide has returned false for an
\* event whose subject contains the keyword toronto.
C5_Witness ==
  /\ ~hasClassifier
  /\ \E c \in Conns :
       /\ Sovereign(c)
       /\ \E i \in 1..Len(conn[c].decisions) :
            /\ DecidedEvent(c, i) = CommitEvent(SubjectPool[1])
            /\ conn[c].decisions[i] = FALSE

\* C6: everything transmitted on a sovereign connection is an event of the
\* shared source that the connection has processed and for which Decide
\* returned true.
C6_OnlyIncludedTransmitted ==
  \A c \in Conns :
    Sovereign(c) =>
      \A k \in 1..Len(conn[c].sent) :
        LET i == conn[c].sent[k]
        IN /\ i \in conn[c].start..(conn[c].next - 1)
           /\ i <= Len(source)
           /\ conn[c].decisions[i - conn[c].start + 1] = TRUE

\* C6 witness: a sovereign connection has transmitted one event and has
\* withheld another.
C6_Witness ==
  \E c \in Conns :
    /\ Sovereign(c)
    /\ Len(conn[c].sent) >= 1
    /\ \E i \in 1..Len(conn[c].decisions) : conn[c].decisions[i] = FALSE

\* C7: a sovereign connection with a missing or invalid credential is only
\* ever in AwaitingAuth or Closed, is closed with 401, is never upgraded
\* and transmits nothing; Upgrading and Streaming are entered only with a
\* valid credential, Streaming only after the upgrade.
C7_UnauthorizedNeverStreams ==
  \A c \in Conns :
    Sovereign(c) =>
      /\ conn[c].credential # "valid" =>
           /\ conn[c].state \in {"AwaitingAuth", "Closed"}
           /\ conn[c].state = "Closed" => conn[c].status = 401
           /\ ~conn[c].upgraded
           /\ conn[c].sent = <<>>
           /\ conn[c].decisions = <<>>
      /\ (conn[c].state \in {"Upgrading", "Streaming"} \/ conn[c].upgraded) =>
           conn[c].credential = "valid"
      /\ conn[c].state = "Streaming" => conn[c].upgraded

\* C7 witness: one sovereign connection was rejected with 401 for an
\* invalid credential, another streams after its upgrade.
C7_Witness ==
  \E c, d \in Conns :
    /\ Sovereign(c) /\ conn[c].credential = "invalid"
    /\ conn[c].state = "Closed" /\ conn[c].status = 401
    /\ Sovereign(d) /\ conn[d].credential = "valid"
    /\ conn[d].state = "Streaming" /\ conn[d].upgraded

\* C8: a standard connection passes no authorization gate and takes no
\* decision, and it has forwarded, in order, every event of the source it
\* has processed, whatever the configuration and the classifier are.
C8_StandardForwardsAll ==
  \A c \in Conns :
    Standard(c) =>
      /\ conn[c].state \in {"Streaming", "Closed"}
      /\ conn[c].status = 0
      /\ conn[c].decisions = <<>>
      /\ conn[c].sent =
           [k \in 1..(conn[c].next - conn[c].start) |-> conn[c].start + k - 1]

\* C8 witness: with an enabled configuration whose country code is invalid
\* and with no classifier attached, a standard connection has forwarded two
\* events, one of them from a subject without a keyword.
C8_Witness ==
  /\ sc.Enabled
  /\ sc.CountryCode = <<"X", "X">>
  /\ ~hasClassifier
  /\ \E c \in Conns :
       /\ Standard(c)
       /\ conn[c].sent = <<1, 2>>
       /\ source[1] = IdentityEvent(SubjectPool[2])


(***************************************************************************)
(* Concurrent queries, lock discipline and the justification of cached     *)
(* inclusions (claims C23, C24, C28 and C30).                              *)
(***************************************************************************)
\* a ShouldInclude call of p for subject s is in progress or has returned
Query(p, s) == frame[p].op = "ShouldInclude" /\ frame[p].did = s

\* no AddCanadianDID for s has run or is running
NoOverrideFor(s) ==
  /\ s \notin DOMAIN knownDIDs
  /\ \A p \in Procs : ~(frame[p].op = "AddCanadianDID" /\ frame[p].did = s)

\* the values that queries for s have returned, are about to write, or have
\* left in the cache
ValuesFor(s) ==
  { frame[p].ret : p \in { q \in Procs : Query(q, s) /\ pc[q] = "ret" } }
    \cup { frame[p].val : p \in { q \in Procs : Query(q, s) /\ pc[q] \in {"L132", "L134"} } }
    \cup { cache[t] : t \in DOMAIN cache \cap {s} }

\* C23: while no AddCanadianDID for a subject has run or is running, all
\* concurrent ShouldInclude calls for that subject return the same value,
\* every value they pass to setCached is that value, and the cache entry
\* they leave equals it.
C23_ConcurrentMissesAgree ==
  \A s \in Subjects : NoOverrideFor(s) => Cardinality(ValuesFor(s)) <= 1

\* C23 witness: two goroutines both missed the cache for the same subject,
\* both went through the heuristic and setCached, and both have returned.
C23_Witness ==
  \E p, q \in Procs :
    /\ p # q
    /\ Returned(p) /\ Returned(q)
    /\ frame[p].did = frame[q].did
    /\ frame[p].path = "heuristic" /\ frame[q].path = "heuristic"
    /\ NoOverrideFor(frame[p].did)
    /\ frame[p].did \in DOMAIN cache

\* a goroutine about to call RLock for a lookup of its subject
WantsRLock(p) == pc[p] \in {"L95", "L103"}

\* C24: cache reads run in parallel with each other, and a cache write for
\* one subject never blocks a concurrent cache read for another subject: a
\* goroutine about to take the read lock for its subject can take it
\* whenever the only lock holder is a writer of a different subject.
C24_WriteNeverBlocksUnrelatedRead ==
  \A p \in Procs :
    WantsRLock(p) =>
      /\ writer = {} => CanRLock
      /\ \A q \in writer : frame[q].did # frame[p].did => CanRLock

\* the steps of a ShouldInclude call before it asks for the exclusive lock
BeforeLock == {"L95", "L96", "L103", "L104", "L118", "L132"}

\* C28: on a cache miss ShouldInclude holds no lock while it evaluates the
\* keyword heuristic, does not hold the shared lock when it asks for the
\* exclusive lock, holds the exclusive lock only in setCached, and has taken
\* it exactly once when it returns.
C28_LockDiscipline ==
  \A p \in Procs :
    frame[p].op = "ShouldInclude" =>
      /\ pc[p] = "L118" => p \notin readers /\ p \notin writer
      /\ pc[p] = "L132" => p \notin readers /\ p \notin writer
      /\ p \in writer <=> pc[p] = "L134"
      /\ pc[p] \in BeforeLock => frame[p].locks = 0
      /\ pc[p] = "L134" => frame[p].locks = 1
      /\ pc[p] = "ret" =>
           frame[p].locks = IF frame[p].path \in {"known", "heuristic"} THEN 1 ELSE 0

\* C28 witness: a call that missed the cache and ran the heuristic has
\* returned, while another call is evaluating the heuristic.
C28_Witness ==
  \E p, q \in Procs :
    /\ Returned(p) /\ frame[p].path = "heuristic" /\ frame[p].locks = 1
    /\ pc[q] = "L118"

\* C30: a cache entry with value true exists for a subject only if the
\* subject contains a jurisdiction keyword, letter case ignored, or the
\* override registry holds the subject as included.
C30_IncludedIsJustified ==
  \A s \in DOMAIN cache :
    cache[s] = TRUE =>
      \/ s \in KeywordSubjects
      \/ s \in DOMAIN knownDIDs /\ knownDIDs[s] = TRUE

\* C30 witness: the cache holds true for a keyword subject that was never
\* overridden and true for an overridden subject without a keyword.
C30_Witness ==
  \E s, t \in DOMAIN cache :
    /\ cache[s] = TRUE /\ s \in KeywordSubjects /\ s \notin DOMAIN knownDIDs
    /\ cache[t] = TRUE /\ t \notin KeywordSubjects /\ t \in DOMAIN knownDIDs


(***************************************************************************)
(* Termination of concurrent calls (claim C29).                            *)
(***************************************************************************)
\* goroutine p is inside a call and its next step waits for the mutex
Blocked(p) ==
  \/ pc[p] \in {"L95", "L103", "L83"} /\ ~CanRLock
  \/ pc[p] \in {"L132", "L75"} /\ ~CanLock

\* a goroutine outside a call, or with its result in hand, holds no lock
LocksReleased ==
  \A p \in Procs : pc[p] \in {"idle", "ret"} => p \notin readers /\ p \notin writer

\* while some call is in progress, some goroutine in a call can take a step
NoDeadlock ==
  (\E p \in Procs : pc[p] # "idle") => \E p \in Procs : pc[p] # "idle" /\ ~Blocked(p)

\* C29: under fair scheduling every started ShouldIncludeInSovereignFeed,
\* AddCanadianDID and GetCache call returns; the mutex is released on every
\* path that acquired it, and no reachable state is a deadlock.
C29_EveryCallTerminates ==
  /\ [](LocksReleased /\ NoDeadlock)
  /\ \A p \in Procs : (pc[p] # "idle") ~> (pc[p] = "idle")

\* C29 witness: AddCanadianDID waits for the exclusive lock while a GetCache
\* call holds the read lock.
C29_Witness ==
  \E p, q \in Procs :
    /\ pc[p] = "L75" /\ Blocked(p)
    /\ pc[q] = "L86" /\ q \in readers


(***************************************************************************)
(* Overrides with a classification (claim C25).                            *)
(***************************************************************************)
\* the i-th call is an override of subject s
IsOverride(i, s) ==
  /\ history[i].did = s
  /\ history[i].op \in {"AddCanadianDID", "AddKnownSubject"}

\* C25: the override accepts either boolean and the last write wins: when
\* the most recent override of a subject asserted `included`, the override
\* registry and the cache hold `included` for the subject, and every
\* ShouldInclude query for the subject after it returns `included`, also
\* for a subject with a jurisdiction keyword.
C25_LastOverrideWins ==
  \A s \in Subjects :
    \A i \in 1..Len(history) :
      ( /\ history[i].op = "AddKnownSubject"
        /\ history[i].did = s
        /\ \A j \in (i + 1)..Len(history) : ~IsOverride(j, s) ) =>
          /\ s \in DOMAIN knownDIDs /\ knownDIDs[s] = history[i].ret
          /\ s \in DOMAIN cache /\ cache[s] = history[i].ret
          /\ \A j \in (i + 1)..Len(history) :
               (IsQuery(j) /\ history[j].did = s) => history[j].ret = history[i].ret


(***************************************************************************)
(* The filter against its classifier and its counters (claims C26, C27).   *)
(***************************************************************************)
IsDecide(i) == history[i].op = "Decide"

\* the Decide calls made so far, and those that returned v
DecideCalls == { i \in 1..Len(history) : IsDecide(i) }
DecideReturned(v) == { i \in DecideCalls : history[i].ret = v }

\* C26: with a classifier attached, every Decide(event) step, for commit,
\* identity, account, sync, empty and nil events, returns what the
\* classifier's ShouldIncludeInSovereignFeed(event) returns in that state
\* and leaves the cache that call leaves; recording metrics does not change
\* the decision.
C26_DecideIsShouldInclude ==
  [][ \A event \in SequentialEvents :
        (hasClassifier /\ CallDecide(event)) =>
          /\ history'[Len(history')].ret = ShouldIncludeResult(event)
          /\ history'[Len(history')].path = ShouldIncludePath(event)
          /\ cache' = CacheAfterShouldInclude(event) ]_vars

\* C26 witness: with a classifier attached Decide returned true for an
\* identity event, false for a commit event and false for an event without
\* a subject.
C26_Witness ==
  /\ hasClassifier
  /\ \E i, j, k \in DecideCalls :
       /\ history[i].ret = TRUE /\ history[i].did \in KeywordSubjects
       /\ history[j].ret = FALSE /\ history[j].path = "heuristic"
       /\ history[k].ret = FALSE /\ history[k].path = "nosubject"

\* C27: with a classifier attached the processed counter, summed over its
\* labels, equals the number of Decide calls and equals sent plus filtered;
\* sent counts the calls that returned true and filtered those that
\* returned false; with no classifier attached no counter changes.
C27_CountersMatchDecisions ==
  IF hasClassifier
    THEN /\ metrics.processedIncluded + metrics.processedFiltered
              = Cardinality(DecideCalls)
         /\ metrics.eventsSent + metrics.filteredEvents = Cardinality(DecideCalls)
         /\ metrics.eventsSent = Cardinality(DecideReturned(TRUE))
         /\ metrics.filteredEvents = Cardinality(DecideReturned(FALSE))
         /\ metrics.processedIncluded = metrics.eventsSent
         /\ metrics.processedFiltered = metrics.filteredEvents
    ELSE metrics = ZeroMetrics

\* C27 witness: after three Decide calls with a classifier attached both
\* the sent and the filtered counter have been incremented.
C27_Witness ==
  /\ hasClassifier
  /\ Cardinality(DecideCalls) >= 2
  /\ metrics.eventsSent >= 1
  /\ metrics.filteredEvents >= 1


(***************************************************************************)
(* Backpressure and the end of a connection (claims C21, C22).             *)
(***************************************************************************)
\* connection c has handled the event at position i of the source: it has
\* moved past it, and has transmitted it when c was entitled to it (every
\* event on the standard endpoint, the included ones on the sovereign one)
Handled(c, i) ==
  /\ conn[c].start <= i
  /\ conn[c].next > i
  /\ \/ conn[c].endpoint = "sovereign" /\ ~conn[c].decisions[i - conn[c].start + 1]
     \/ \E k \in 1..Len(conn[c].sent) : conn[c].sent[k] = i

\* connection c is streaming and the event at position i is for it
Owes(c, i) ==
  /\ conn[c].state = "Streaming"
  /\ conn[c].start <= i
  /\ i <= Len(source)

\* connection c has left Streaming or is about to
Ended(c) == conn[c].state = "Closed" \/ conn[c].ending # "none"

\* C21: whatever the connection accepted first does, also when it is a
\* sovereign subscriber that never consumes, every other connection that is
\* streaming eventually handles each event of the source it is owed, unless
\* that connection itself ends.
C21_OthersProgress ==
  \A c \in Conns \ {SlowConn} :
    \A i \in 1..MaxEvents :
      Owes(c, i) ~> (Handled(c, i) \/ Ended(c))

\* C21 witness: the sovereign connection accepted first is streaming and has
\* consumed nothing of a full source, while another connection has handled
\* every event.
C21_Witness ==
  /\ Len(source) = MaxEvents
  /\ conn[SlowConn].endpoint = "sovereign"
  /\ conn[SlowConn].state = "Streaming"
  /\ conn[SlowConn].start = 1 /\ conn[SlowConn].next = 1
  /\ \E c \in Conns \ {SlowConn} :
       /\ conn[c].state = "Streaming"
       /\ conn[c].start = 1
       /\ \A i \in 1..MaxEvents : Handled(c, i)

\* C22: on every connection a client disconnect, a cancellation of its
\* context or a send error leads to Closed, also on the connection whose
\* client is stalled; no step changes a connection that is Closed, so
\* nothing leaves Closed and nothing is transmitted after it.
C22_EndsClosedForGood ==
  /\ \A c \in Conns : (conn[c].ending # "none") ~> (conn[c].state = "Closed")
  /\ [][ \A c \in Conns : conn[c].state = "Closed" => conn'[c] = conn[c] ]_vars

\* C22 witness: the connection accepted first was closed while events it
\* had not consumed were waiting, and the source went on afterwards.
C22_Witness ==
  /\ conn[SlowConn].state = "Closed"
  /\ conn[SlowConn].upgraded
  /\ conn[SlowConn].next <= Len(source)
  /\ conn[SlowConn].next < MaxEvents


(***************************************************************************)
(* What Validate reads and what it leaves alone (claim C35).               *)
(***************************************************************************)
\* C35: a Validate step leaves every field of the configuration as it was,
\* the country code included, and its result is the result for the same
\* Enabled and CountryCode with any other DataRetentionDays and PrivacyMode,
\* also a privacy mode outside strict, balanced and minimal.
C35_ValidateReadsTwoFields ==
  [][ CallValidate =>
        /\ sc' = sc
        /\ \A d \in DataRetentionValues, m \in PrivacyModes :
             validateErr' = Validate([sc EXCEPT !.DataRetentionDays = d,
                                                !.PrivacyMode = m]) ]_vars

\* C35 witness: an enabled lower-case "us" configuration with a negative
\* retention and the privacy mode "standard" was validated without error and
\* still holds the lower-case code.
C35_Witness ==
  /\ validateErr = NoError
  /\ sc.Enabled
  /\ sc.CountryCode = <<"u", "s">>
  /\ sc.DataRetentionDays < 0
  /\ sc.PrivacyMode = "standard"


(***************************************************************************)
(* The maps only grow (claim C31).                                         *)
(***************************************************************************)
\* C31: no step of ShouldIncludeInSovereignFeed, AddCanadianDID, GetCache
\* or Initialize removes a subject from the cache or from knownDIDs: the
\* subjects of both maps only grow; ttl is never read.
C31_EntriesOnlyGrow ==
  [][ /\ DOMAIN cache \subseteq DOMAIN cache'
      /\ DOMAIN knownDIDs \subseteq DOMAIN knownDIDs' ]_vars

\* C31 witness: after a query, an override of another subject and an
\* Initialize the cache holds both subjects and knownDIDs the overridden one.
C31_Witness ==
  /\ Len(history) = 3
  /\ IsQuery(1)
  /\ history[2].op = "AddCanadianDID" /\ history[2].did # history[1].did
  /\ history[3].op = "Initialize"
  /\ DOMAIN cache = {history[1].did, history[2].did}
  /\ DOMAIN knownDIDs = {history[2].did}


(***************************************************************************)
(* The event kind does not enter the decision (claim C33).                 *)
(***************************************************************************)
\* the events of the four kinds that carry subject s
EventsOf(s) == {CommitEvent(s), IdentityEvent(s), AccountEvent(s), SyncEvent(s)}

\* C33: in every state the commit, identity, account and sync events of a
\* subject get the same ShouldInclude result and leave the same cache, and
\* two queries of one subject made one after the other returned the same
\* value whatever the kinds of their events.
C33_KindDoesNotMatter ==
  /\ \A s \in Subjects :
       \A e1, e2 \in EventsOf(s) :
         /\ ShouldIncludeResult(e1) = ShouldIncludeResult(e2)
         /\ CacheAfterShouldInclude(e1) = CacheAfterShouldInclude(e2)
  /\ \A i \in 1..(Len(history) - 1) :
       (IsQuery(i) /\ IsQuery(i + 1) /\ history[i].did = history[i + 1].did) =>
         history[i].ret = history[i + 1].ret

\* C33 witness: a commit event, an identity event and a sync event of
\* toronto-user-123 were queried one after the other and all returned true.
C33_Witness ==
  /\ Len(history) = 3
  /\ \A i \in 1..3 :
       IsQuery(i) /\ history[i].did = SubjectPool[1] /\ history[i].ret = TRUE
  /\ history[1].kind = "commit"
  /\ history[2].kind = "identity"
  /\ history[3].kind = "sync"


(***************************************************************************)
(* A call without a subject touches nothing (claim C32).                   *)
(***************************************************************************)
\* goroutine p is in a ShouldInclude call on a nil event or on an event
\* with none of the four payloads
InNoSubjectCall(p) == frame[p].op = "ShouldInclude" /\ frame[p].ev # <<>>

\* C32: every step of a ShouldInclude call on a nil event or on an event
\* without a commit, identity, account or sync payload, from its start to
\* its return, leaves the cache, knownDIDs and the holders of the mutex as
\* they were; the call goes from its start straight to its return.
C32_NoSubjectTouchesNothing ==
  [][ \A p \in Procs :
        (pc'[p] # pc[p] /\ (InNoSubjectCall(p) \/ InNoSubjectCall(p)')) =>
          /\ cache' = cache
          /\ knownDIDs' = knownDIDs
          /\ readers' = readers
          /\ writer' = writer
          /\ {pc[p], pc'[p]} = {"idle", "ret"} ]_vars

\* C32 witness: a call on the nil event has returned while the cache holds
\* an entry and another goroutine holds the exclusive lock.
C32_Witness ==
  \E p, q \in Procs :
    /\ InNoSubjectCall(p) /\ pc[p] = "ret" /\ frame[p].ev = <<NilEvent>>
    /\ q \in writer
    /\ cache # EmptyMap


(***************************************************************************)
(* What a sovereign connection transmits, in order (claim C37).            *)
(***************************************************************************)
\* the positions of the source that connection c has decided to include,
\* in the order of the source
RECURSIVE IncludedUpTo(_, _)
IncludedUpTo(c, n) ==
  IF n < conn[c].start THEN <<>>
  ELSE IF conn[c].decisions[n - conn[c].start + 1]
    THEN Append(IncludedUpTo(c, n - 1), n)
    ELSE IncludedUpTo(c, n - 1)

\* C37: on every sovereign connection the transmitted positions are
\* strictly increasing positions of the source emitted while the connection
\* was Streaming, so nothing is duplicated or reordered, and they are
\* exactly the positions whose Decide returned true.
C37_SentIsOrderedSubsequence ==
  \A c \in Conns :
    conn[c].endpoint = "sovereign" =>
      /\ \A k \in 1..Len(conn[c].sent) :
           /\ conn[c].start <= conn[c].sent[k]
           /\ conn[c].sent[k] < conn[c].next
           /\ conn[c].sent[k] <= Len(source)
      /\ \A j, k \in 1..Len(conn[c].sent) :
           j < k => conn[c].sent[j] < conn[c].sent[k]
      /\ conn[c].sent = IncludedUpTo(c, conn[c].next - 1)

\* C37 witness: a sovereign connection has transmitted two events of the
\* source, in the order of the source.
C37_Witness ==
  \E c \in Conns :
    /\ conn[c].endpoint = "sovereign"
    /\ Len(conn[c].sent) >= 2
    /\ conn[c].sent[1] < conn[c].sent[2]


(***************************************************************************)
(* The converter against the classifier's subject extraction (claim C34).  *)
(***************************************************************************)
\* the sequence number of the payload the classifier's switch selects
SeqOf(xrpc) ==
  IF xrpc.RepoCommit # NoPayload THEN xrpc.RepoCommit[2]
  ELSE IF xrpc.RepoIdentity # NoPayload THEN xrpc.RepoIdentity[2]
  ELSE IF xrpc.RepoAccount # NoPayload THEN xrpc.RepoAccount[2]
  ELSE xrpc.RepoSync[2]

\* C34: nil converts to nil, and for every wire event from which the
\* classifier extracts a subject (commit, identity, account, sync) the
\* converted StreamEvent is not nil and has the kind of the event, the
\* subject the classifier extracts and the sequence number of the event.
C34_ConverterAgreesWithClassifier ==
  arg.op = "ConvertXRPCToStreamEvent" =>
    LET xrpc == arg.xrpc
        e == ShouldIncludeEntry(xrpc)
    IN /\ xrpc.isNil => result.isNil
       /\ e.kind = "call" =>
            /\ ~result.isNil
            /\ result.Kind = EventKind(xrpc)
            /\ result.Repo = e.repo
            /\ result.Seq = SeqOf(xrpc)

(***************************************************************************)
(* FilterResult (claim C38).                                               *)
(***************************************************************************)
\* C38: every FilterResult a constructor returns satisfies HashOnly implies
\* not Pass; NewFilterResult keeps pass and reason with HashOnly false, and
\* NewHashOnlyFilterResult keeps reason with Pass false and HashOnly true.
C38_HashOnlyNeverPasses ==
  /\ arg.op \in {"NewFilterResult", "NewHashOnlyFilterResult"} =>
       (result.HashOnly => ~result.Pass)
  /\ arg.op = "NewFilterResult" =>
       /\ result.Pass = arg.pass
       /\ result.Reason = arg.reason
       /\ result.HashOnly = FALSE
  /\ arg.op = "NewHashOnlyFilterResult" =>
       /\ result.Pass = FALSE
       /\ result.Reason = arg.reason
       /\ result.HashOnly = TRUE

\* C38 witness: NewHashOnlyFilterResult("hash only") has returned.
C38_Witness ==
  /\ arg.op = "NewHashOnlyFilterResult"
  /\ arg.reason = "hash only"
  /\ result.HashOnly


(***************************************************************************)
(* The two constructors give the same classifier (claim C36).              *)
(***************************************************************************)
\* The cache and the override registry of a classifier that started as
\* NewCanadianGeographicFilter() and went through the first n calls of
\* history.
RECURSIVE ReferenceAfter(_)
ReferenceAfter(n) ==
  IF n = 0 THEN NewCanadianGeographicFilter
  ELSE LET f == ReferenceAfter(n - 1)
           h == history[n]
       IN IF h.op = "AddCanadianDID"
            THEN [f EXCEPT !.cache = MapPut(f.cache, h.did, TRUE),
                           !.knownDIDs = MapPut(f.knownDIDs, h.did, TRUE)]
          ELSE IF h.op = "ShouldInclude" /\ h.path # "nosubject"
                  /\ h.did \notin DOMAIN f.cache
            THEN [f EXCEPT !.cache =
                    MapPut(f.cache, h.did,
                           IF h.did \in DOMAIN f.knownDIDs
                             THEN f.knownDIDs[h.did]
                             ELSE h.did \in KeywordSubjects)]
          ELSE f

\* what the n-th call of history, a query, returns on that classifier
ReferenceResult(n) ==
  LET f == ReferenceAfter(n - 1)
      h == history[n]
  IN IF h.path = "nosubject" THEN FALSE
     ELSE IF h.did \in DOMAIN f.cache THEN f.cache[h.did]
     ELSE IF h.did \in DOMAIN f.knownDIDs THEN f.knownDIDs[h.did]
     ELSE h.did \in KeywordSubjects

\* C36: a classifier built by NewGeographicFilter(countryCode) is the
\* classifier NewCanadianGeographicFilter() builds, whatever countryCode
\* is: through every sequence of queries and overrides each query returns
\* what it returns on the Canadian classifier, the maps are the same, and a
\* subject without a keyword that was not overridden is excluded.
C36_CountryIsIgnored ==
  arg.op = "NewGeographicFilter" =>
    /\ result = NewCanadianGeographicFilter
    /\ cache = ReferenceAfter(Len(history)).cache
    /\ knownDIDs = ReferenceAfter(Len(history)).knownDIDs
    /\ \A n \in 1..Len(history) :
         history[n].op = "ShouldInclude" =>
           /\ history[n].ret = ReferenceResult(n)
           /\ ( /\ history[n].did \notin KeywordSubjects
                /\ \A k \in 1..(n - 1) : ~IsOverride(k, history[n].did) ) =>
                  history[n].ret = FALSE

\* C36 witness: the classifier built by NewGeographicFilter("US") included
\* toronto-user-123 and excluded american-user.
C36_Witness ==
  /\ arg.op = "NewGeographicFilter"
  /\ arg.countryCode = <<"U", "S">>
  /\ \E i, j \in 1..Len(history) :
       /\ IsQuery(i) /\ history[i].did = SubjectPool[1] /\ history[i].ret = TRUE
       /\ IsQuery(j) /\ history[j].did = SubjectPool[2] /\ history[j].ret = FALSE

=============================================================================
